---- MODULE Spec2Model ----
(***************************************************************************)
(* A model of the emulation core of the gameboy-emulator crate: the        *)
(* instruction decoder (cpu/decoder.rs), the CPU step with its interrupt   *)
(* service, HALT and EI/DI handling (cpu/mod.rs), the interrupt controller *)
(* (io/interrupts.rs), the memory bus (bus/mod.rs, io/mod.rs,              *)
(* memory/ram.rs), the timer (io/timer.rs), the OAM DMA controller and the *)
(* object attribute memory (io/dma.rs, ppu/oam.rs), the joypad             *)
(* (io/joypad.rs), the AF register pair (cpu/execution_state.rs), the      *)
(* arithmetic of the CPU (cpu/alu.rs), the LCD registers with the mode and *)
(* frame timing of the PPU and the objects it draws on a scanline          *)
(* (io/lcd.rs, ppu/mod.rs).                                                *)
(* Cycle counts are M-cycles, as in the code (one M-cycle is four          *)
(* T-cycles).                                                              *)
(***************************************************************************)
EXTENDS Integers, Sequences, FiniteSets, TLC

VARIABLES
    instruction_pointer,    \* ExecutionState.instruction_pointer (PC)
    stack_pointer,          \* ExecutionState.stack_pointer (SP)
    reg_a,                  \* ExecutionState.reg_a
    reg_bc,                 \* ExecutionState.reg_bc
    reg_de,                 \* ExecutionState.reg_de
    reg_hl,                 \* ExecutionState.reg_hl
    flags,                  \* ExecutionState.flags (zero, subtraction, half_carry, carry)
    interrupts_enabled,     \* ExecutionState.interrupts_enabled (IME)
    interrupt_enable_next,  \* Cpu.interrupt_enable_next (the EI latch)
    halted,                 \* Cpu.halted
    interrupt_flag,         \* Interrupts.interrupt_flag (IF)
    interrupt_enable,       \* Interrupts.interrupt_enable (IE)
    boot_rom_enable,        \* IO.boot_rom_enable (FF50)
    boot_rom,               \* BootRom contents, the bytes read so far
    bank0,                  \* Cartridge bank 0, the bytes read so far
    bank1,                  \* Cartridge bank 1, the bytes read so far
    work_ram,               \* WorkRam.contents, the non-zero bytes
    high_ram,               \* HighRam.contents, the non-zero bytes
    oam,                    \* ObjectAttributeMemory.objects, the objects written
    timer,                  \* IO.timer
    dma,                    \* IO.dma
    joypad_input,           \* IO.joypad_input
    lcd,                    \* IO.lcd: LCDC enable, LY, LYC and STAT
    ppu,                    \* Bus.ppu: current_cycles and current_scanline
    fault,                  \* the Err a call returned, <<>> while none has
    steps,                  \* number of step calls made
    elapsed,                \* cycles stepped since the write under test (history)
    last,                   \* what the last Cpu::step call did (history)
    trace,                  \* the instruction and service of every call (history)
    call                    \* the pure-function call under test and its result

vars == << instruction_pointer, stack_pointer, reg_a, reg_bc, reg_de, reg_hl,
           flags, interrupts_enabled, interrupt_enable_next, halted,
           interrupt_flag, interrupt_enable, boot_rom_enable, boot_rom, bank0,
           bank1, work_ram, high_ram, oam, timer, dma, joypad_input, lcd, ppu,
           fault, steps, elapsed, last, trace, call >>

-----------------------------------------------------------------------------
(* Bounds of the model.                                                    *)

\* Number of Cpu::step calls explored from an initial CPU state.
MaxSteps == 3

-----------------------------------------------------------------------------
(* Bit arithmetic on u8 / u16 values.                                      *)

RECURSIVE AndBits(_, _, _)
AndBits(a, b, n) ==
    IF n = 0 \/ a = 0 \/ b = 0 THEN 0
    ELSE (a % 2) * (b % 2) + 2 * AndBits(a \div 2, b \div 2, n - 1)

BitAnd(a, b) == AndBits(a, b, 16)

BitOr(a, b) == a + b - BitAnd(a, b)

Not8(a) == 255 - a

Shr(a, n) == a \div (2 ^ n)

Wrap16(a) == a % 65536

WrappingSub16(a, b) == (a + 65536 - b) % 65536

-----------------------------------------------------------------------------
(* cpu/decoder.rs: the opcode tables.                                      *)

\* impl TryFrom<u8> for Opcode: the first matching pattern wins.
OpcodeTryFrom(value) ==
    IF value = 0 THEN "Nop"
    ELSE IF BitAnd(value, 207) = 1 THEN "LdReg16"
    ELSE IF BitAnd(value, 207) = 2 THEN "LdMemA"
    ELSE IF BitAnd(value, 207) = 10 THEN "LdAMem"
    ELSE IF BitAnd(value, 255) = 8 THEN "LdImm16Sp"
    ELSE IF BitAnd(value, 207) = 3 THEN "Inc16"
    ELSE IF BitAnd(value, 207) = 11 THEN "Dec16"
    ELSE IF BitAnd(value, 199) = 4 THEN "Inc8"
    ELSE IF BitAnd(value, 199) = 5 THEN "Dec8"
    ELSE IF BitAnd(value, 199) = 6 THEN "LdReg8Imm"
    ELSE IF value = 7 THEN "Rlca"
    ELSE IF value = 15 THEN "Rrca"
    ELSE IF value = 23 THEN "Rla"
    ELSE IF value = 31 THEN "Rra"
    ELSE IF value = 39 THEN "Daa"
    ELSE IF value = 47 THEN "Cpl"
    ELSE IF value = 55 THEN "Scf"
    ELSE IF value = 63 THEN "Ccf"
    ELSE IF value = 24 THEN "JrImm"
    ELSE IF BitAnd(value, 231) = 32 THEN "JrCond"
    ELSE IF value = 16 THEN "Stop"
    ELSE IF BitAnd(value, 192) = 64 THEN "LdReg8Reg8"
    ELSE IF value = 118 THEN "Halt"
    ELSE IF BitAnd(value, 248) = 128 THEN "AddReg8"
    ELSE IF BitAnd(value, 248) = 136 THEN "AdcReg8"
    ELSE IF BitAnd(value, 248) = 144 THEN "SubReg8"
    ELSE IF BitAnd(value, 248) = 152 THEN "SbcReg8"
    ELSE IF BitAnd(value, 248) = 160 THEN "AndReg8"
    ELSE IF BitAnd(value, 248) = 168 THEN "XorReg8"
    ELSE IF BitAnd(value, 248) = 176 THEN "OrReg8"
    ELSE IF BitAnd(value, 248) = 184 THEN "CpReg8"
    ELSE IF value = 198 THEN "AddImm8"
    ELSE IF value = 206 THEN "AdcImm8"
    ELSE IF value = 214 THEN "SubImm8"
    ELSE IF value = 222 THEN "SbcImm8"
    ELSE IF value = 230 THEN "AndImm8"
    ELSE IF value = 238 THEN "XorImm8"
    ELSE IF value = 246 THEN "OrImm8"
    ELSE IF value = 254 THEN "CpImm8"
    ELSE IF BitAnd(value, 231) = 192 THEN "RetCond"
    ELSE IF value = 201 THEN "Ret"
    ELSE IF value = 217 THEN "Reti"
    ELSE IF BitAnd(value, 231) = 194 THEN "JpCond"
    ELSE IF value = 195 THEN "JpImm"
    ELSE IF value = 233 THEN "JpHl"
    ELSE IF BitAnd(value, 231) = 196 THEN "CallCond"
    ELSE IF value = 205 THEN "CallImm"
    ELSE IF BitAnd(value, 199) = 199 THEN "Rst"
    ELSE IF BitAnd(value, 207) = 193 THEN "Pop"
    ELSE IF BitAnd(value, 207) = 197 THEN "Push"
    ELSE IF value = 203 THEN "Prefix"
    ELSE IF value = 226 THEN "LdhMemA"
    ELSE IF value = 224 THEN "LdhImmA"
    ELSE IF value = 234 THEN "LdImmA"
    ELSE IF value = 242 THEN "LdhAMem"
    ELSE IF value = 240 THEN "LdhAImm"
    ELSE IF value = 250 THEN "LdAImm"
    ELSE IF value = 232 THEN "AddSp"
    ELSE IF value = 248 THEN "LdHlSpImm8"
    ELSE IF value = 249 THEN "LdSpHl"
    ELSE IF value = 243 THEN "Di"
    ELSE IF value = 251 THEN "Ei"
    ELSE "Err"

\* The same, tabulated once.
OpcodeTable == [value \in 0 .. 255 |-> OpcodeTryFrom(value)]

\* impl TryFrom<u8> for Prefixed.
PrefixedTryFrom(value) ==
    IF BitAnd(value, 248) = 0 THEN "Rlc"
    ELSE IF BitAnd(value, 248) = 8 THEN "Rrc"
    ELSE IF BitAnd(value, 248) = 16 THEN "Rl"
    ELSE IF BitAnd(value, 248) = 24 THEN "Rr"
    ELSE IF BitAnd(value, 248) = 32 THEN "Sla"
    ELSE IF BitAnd(value, 248) = 40 THEN "Sra"
    ELSE IF BitAnd(value, 248) = 48 THEN "Swap"
    ELSE IF BitAnd(value, 248) = 56 THEN "Srl"
    ELSE IF BitAnd(value, 192) = 64 THEN "Bit"
    ELSE IF BitAnd(value, 192) = 128 THEN "Res"
    ELSE IF BitAnd(value, 192) = 192 THEN "Set"
    ELSE "Err"

\* The same, tabulated once.
PrefixedTable == [value \in 0 .. 255 |-> PrefixedTryFrom(value)]

\* Decoder::read_r8
read_r8(opcode_byte, bit_offset) ==
    LET value == BitAnd(Shr(opcode_byte, bit_offset), 7)
    IN  << "B", "C", "D", "E", "H", "L", "HlIndirect", "A" >>[value + 1]

\* Decoder::read_r16
read_r16(opcode_byte, bit_offset) ==
    LET value == BitAnd(Shr(opcode_byte, bit_offset), 3)
    IN  << "Bc", "De", "Hl", "Sp" >>[value + 1]

\* Decoder::read_r16_stack
read_r16_stack(opcode_byte) ==
    LET value == BitAnd(Shr(opcode_byte, 4), 3)
    IN  << "Bc", "De", "Hl", "Af" >>[value + 1]

\* Decoder::read_r16_mem
read_r16_mem(opcode_byte, bit_offset) ==
    LET value == BitAnd(Shr(opcode_byte, bit_offset), 3)
    IN  << "Bc", "De", "Hli", "Hld" >>[value + 1]

\* Decoder::read_cond
read_cond(opcode_byte) ==
    LET value == BitAnd(Shr(opcode_byte, 3), 3)
    IN  << "Nz", "Z", "Nc", "C" >>[value + 1]

\* Decoder::read_bit_index
read_bit_index(prefixed) == BitAnd(Shr(prefixed, 3), 7)

\* Decoder::read_tgt
read_tgt(opcode_byte) == BitAnd(Shr(opcode_byte, 3), 7)

-----------------------------------------------------------------------------
(* Results of fallible calls.  A read of a ROM byte that no earlier read   *)
(* has fixed yet is reported as NeedRom and resolved by the caller, which  *)
(* draws the byte of the ROM image at that place (see Runs).               *)

\* The one element of a one-element set.  An intermediate result is bound
\* as x \in { e } where it is used more than once, so that it is a value.
The(S) == CHOOSE x \in S : TRUE

Ok(v) == [ok |-> TRUE, val |-> v, err |-> << >>]

Fail(e) == [ok |-> FALSE, val |-> 0, err |-> e]

NoFault == << >>

\* A zero-initialised byte array, kept as the map of its non-zero bytes.
Load(contents, index) ==
    IF index \in DOMAIN contents THEN contents[index] ELSE 0

Store(contents, index, data) ==
    IF data = 0
    THEN [k \in DOMAIN contents \ {index} |-> contents[k]]
    ELSE [k \in DOMAIN contents \cup {index} |->
              IF k = index THEN data ELSE contents[k]]

\* An immutable ROM image, kept as the map of the bytes read so far.
RomByte(contents, name, index) ==
    IF index \in DOMAIN contents
    THEN Ok(contents[index])
    ELSE Fail(<< "NeedRom", name, index >>)

\* Cartridge::bank0 and Cartridge::bank1 are arrays of 512 bytes: an index
\* past their end panics.
BankByte(contents, name, index) ==
    IF index < 512
    THEN RomByte(contents, name, index)
    ELSE Fail(<< "Panic", name, index >>)

-----------------------------------------------------------------------------
(* memory/ram.rs                                                           *)

\* WorkRam::read_u8
WorkRamRead(m, address) == Load(m.work_ram, address - 49152)

\* A work RAM whose write lands one byte above the address.
WorkRamWriteOffByOne(m, address, data) ==
    [m EXCEPT !.work_ram = Store(m.work_ram, address - 49151, data)]

\* WorkRam::write_u8
WorkRamWrite(m, address, data) ==
    [m EXCEPT !.work_ram = Store(m.work_ram, address - 49152, data)]

\* HighRam::read_u8
HighRamRead(m, address) == Load(m.high_ram, address - 65408)

\* HighRam::write_u8
HighRamWrite(m, address, data) ==
    [m EXCEPT !.high_ram = Store(m.high_ram, address - 65408, data)]

-----------------------------------------------------------------------------
(* io/interrupts.rs                                                        *)

Interrupt == { "VBlank", "Lcd", "Timer", "Serial", "Joypad" }

\* The bit of an interrupt in IF and IE (the match in clear_requested_interrupt
\* and set_interrupt_requested).
InterruptBit(interrupt) ==
    CASE interrupt = "VBlank" -> 1
      [] interrupt = "Lcd"    -> 2
      [] interrupt = "Timer"  -> 4
      [] interrupt = "Serial" -> 8
      [] interrupt = "Joypad" -> 16

\* A priority encoder that looks at the bits from the top one down.
highest_bit_triggered_interrupt(ie, if) ==
    LET triggered == BitAnd(ie, if)
    IN  IF BitAnd(triggered, 16) # 0 THEN "Joypad"
        ELSE IF BitAnd(triggered, 8) # 0 THEN "Serial"
        ELSE IF BitAnd(triggered, 4) # 0 THEN "Timer"
        ELSE IF BitAnd(triggered, 2) # 0 THEN "Lcd"
        ELSE IF BitAnd(triggered, 1) # 0 THEN "VBlank"
        ELSE "None"

\* Interrupts::highest_priority_triggered_interrupt ("None" for Option::None)
highest_priority_triggered_interrupt(ie, if) ==
    LET triggered == BitAnd(ie, if)
    IN  IF BitAnd(triggered, 1) # 0 THEN "VBlank"
        ELSE IF BitAnd(triggered, 2) # 0 THEN "Lcd"
        ELSE IF BitAnd(triggered, 4) # 0 THEN "Timer"
        ELSE IF BitAnd(triggered, 8) # 0 THEN "Serial"
        ELSE IF BitAnd(triggered, 16) # 0 THEN "Joypad"
        ELSE "None"

\* Interrupts::clear_requested_interrupt
clear_requested_interrupt(if, interrupt) ==
    BitAnd(if, Not8(InterruptBit(interrupt)))

\* Interrupts::set_interrupt_requested
set_interrupt_requested(if, interrupt) ==
    BitOr(if, InterruptBit(interrupt))

\* Interrupts::read_interrupt_enable
read_interrupt_enable(m) == BitAnd(m.interrupt_enable, 31)

\* Interrupts::write_interrupt_enable
write_interrupt_enable(m, value) ==
    [m EXCEPT !.interrupt_enable = BitAnd(value, 31)]

\* Interrupts::read_interrupt_flag
read_interrupt_flag(m) == BitAnd(m.interrupt_flag, 31)

\* Interrupts::write_interrupt_flag
write_interrupt_flag(m, value) ==
    [m EXCEPT !.interrupt_flag = BitAnd(value, 31)]

-----------------------------------------------------------------------------
(* io/timer.rs                                                             *)

ClockSelect ==
    { "Every256MCycles", "Every4MCycles", "Every16MCycles", "Every64MCycles" }

\* ClockSelect::cycles_value
cycles_value(clock_select) ==
    CASE clock_select = "Every256MCycles" -> 256
      [] clock_select = "Every4MCycles"   -> 4
      [] clock_select = "Every16MCycles"  -> 16
      [] clock_select = "Every64MCycles"  -> 64

\* Timer::new
TimerNew ==
    [ divider |-> 0, timer_counter |-> 0, timer_modulo |-> 0, enable |-> FALSE,
      clock_select |-> "Every256MCycles", cycles |-> 0 ]

\* Timer::read_divider
read_divider(t) == t.divider

\* Timer::set_divider
set_divider(t, value) == [t EXCEPT !.divider = value]

\* Timer::write_divider
write_divider(t, value) == [t EXCEPT !.divider = 0]

\* Timer::read_timer_counter
read_timer_counter(t) == t.timer_counter

\* Timer::write_timer_counter
write_timer_counter(t, value) == [t EXCEPT !.timer_counter = value]

\* Timer::read_timer_modulo
read_timer_modulo(t) == t.timer_modulo

\* Timer::write_timer_modulo
write_timer_modulo(t, value) == [t EXCEPT !.timer_modulo = value]

\* Timer::read_timer_control
read_timer_control(t) ==
    BitOr(IF t.enable THEN 4 ELSE 0,
          CASE t.clock_select = "Every256MCycles" -> 0
            [] t.clock_select = "Every4MCycles"   -> 1
            [] t.clock_select = "Every16MCycles"  -> 2
            [] t.clock_select = "Every64MCycles"  -> 3)

\* Timer::write_timer_control
write_timer_control(t, value) ==
    [t EXCEPT !.enable = BitAnd(value, 4) # 0,
              !.clock_select =
                  CASE BitAnd(value, 3) = 0 -> "Every256MCycles"
                    [] BitAnd(value, 3) = 1 -> "Every4MCycles"
                    [] BitAnd(value, 3) = 2 -> "Every16MCycles"
                    [] OTHER                -> "Every64MCycles"]

\* Timer::step: the timer after the call and the bool it returns.
TimerStep(t, cycles) ==
    The({ IF ~t.enable
          THEN [timer |-> stepped, overflowed |-> FALSE]
          ELSE The({ IF overflowed
                     THEN [timer |-> [stepped EXCEPT !.cycles = remaining,
                                                     !.timer_counter = stepped.timer_modulo],
                           overflowed |-> TRUE]
                     ELSE [timer |-> [stepped EXCEPT !.cycles = remaining],
                           overflowed |-> FALSE]
                       : remaining \in
                             { (t.cycles + cycles) % cycles_value(t.clock_select) },
                         overflowed \in
                             { t.timer_counter
                                 + (((t.cycles + cycles)
                                       \div cycles_value(t.clock_select)) % 256)
                                 > 255 } })
            : stepped \in
                  { [t EXCEPT !.divider = (t.divider + (cycles % 256)) % 256] } })

-----------------------------------------------------------------------------
(* io/dma.rs                                                               *)

DMA_TRANSFER_CYCLES_LENGTH == 160

\* DMAController::new
DMAControllerNew ==
    [ transferring |-> FALSE, source_address |-> 0, cycles_in |-> 0,
      source_reg |-> 0 ]

\* DMAController::read_source_address
read_source_address(d) == d.source_reg

\* DMAController::full_source_address
full_source_address(d) == d.source_address

\* DMAController::start_new_transfer
start_new_transfer(d, source) ==
    [ transferring |-> TRUE, source_address |-> source * 256,
      cycles_in |-> 0, source_reg |-> source ]

\* DMAController::step: the controller after the call and the bool it
\* returns.  The cycles of a step are small, so the u16 sums do not overflow.
DmaStep(d, cycles) ==
    IF d.transferring
    THEN The({ IF now > DMA_TRANSFER_CYCLES_LENGTH
               THEN [dma |-> [d EXCEPT !.cycles_in = 0, !.transferring = FALSE],
                     completed |-> TRUE]
               ELSE [dma |-> [d EXCEPT !.cycles_in = d.cycles_in + now],
                     completed |-> FALSE]
                 : now \in { d.cycles_in + cycles } })
    ELSE [dma |-> d, completed |-> FALSE]

-----------------------------------------------------------------------------
(* ppu/oam.rs                                                              *)

\* impl From<u8> for Flags (the attributes of an object)
OamFlagsFromU8(value) ==
    [ priority |-> BitAnd(Shr(value, 7), 1) # 0,
      y_flip   |-> BitAnd(Shr(value, 6), 1) # 0,
      x_flip   |-> BitAnd(Shr(value, 5), 1) # 0,
      palette  |-> IF BitAnd(Shr(value, 4), 1) = 0 THEN "Pallete0"
                                                   ELSE "Pallete1" ]

\* impl From<&Flags> for u8
U8FromOamFlags(value) ==
    BitOr(BitOr(IF value.priority THEN 128 ELSE 0,
                IF value.y_flip THEN 64 ELSE 0),
          BitOr(IF value.x_flip THEN 32 ELSE 0,
                IF value.palette = "Pallete0" THEN 0 ELSE 16))

\* ObjectAttributes::zeroed
ObjectAttributesZeroed ==
    [ y_position |-> 0, x_position |-> 0, tile_index |-> 0,
      attributes |-> OamFlagsFromU8(0) ]

\* The object at an index of ObjectAttributeMemory.objects.
OamObject(m, object_index) ==
    IF object_index \in DOMAIN m.oam THEN m.oam[object_index]
    ELSE ObjectAttributesZeroed

\* ObjectAttributeMemory::read_u8
OamRead(m, address) ==
    The({ CASE (address - 65024) % 4 = 0 -> object.y_position
            [] (address - 65024) % 4 = 1 -> object.x_position
            [] (address - 65024) % 4 = 2 -> object.tile_index
            [] (address - 65024) % 4 = 3 -> U8FromOamFlags(object.attributes)
            : object \in { OamObject(m, (address - 65024) \div 4) } })

\* ObjectAttributeMemory::write_u8
OamWrite(m, address, data) ==
    The({ The({ [m EXCEPT !.oam =
                    [k \in DOMAIN m.oam \cup { object_index } |->
                        IF k = object_index THEN written ELSE m.oam[k]]]
                  : written \in
                      { CASE (address - 65024) % 4 = 0 ->
                               [object EXCEPT !.y_position = data]
                          [] (address - 65024) % 4 = 1 ->
                               [object EXCEPT !.x_position = data]
                          [] (address - 65024) % 4 = 2 ->
                               [object EXCEPT !.tile_index = data]
                          [] (address - 65024) % 4 = 3 ->
                               [object EXCEPT !.attributes = OamFlagsFromU8(data)] } })
            : object_index \in { (address - 65024) \div 4 },
              object \in { OamObject(m, (address - 65024) \div 4) } })

-----------------------------------------------------------------------------
(* io/joypad.rs and the InputState of lib.rs                               *)

\* InputState::empty
InputStateEmpty ==
    [ a_pressed |-> FALSE, b_pressed |-> FALSE, start_pressed |-> FALSE,
      select_pressed |-> FALSE, dpad_state |-> "None" ]

\* JoypadInput::new
JoypadInputNew ==
    [ selection |-> "None", inputs |-> InputStateEmpty,
      previous_inputs |-> InputStateEmpty ]

\* DPadState::is_right, is_left, is_up and is_down, as the bit that
\* JoypadInput::read_dpad gives each (0 right, 1 left, 2 up, 3 down).
DPadIs(dpad_state, bit) ==
    CASE bit = 0 -> dpad_state \in { "Right", "RightDown", "RightUp" }
      [] bit = 1 -> dpad_state \in { "Left", "LeftDown", "LeftUp" }
      [] bit = 2 -> dpad_state \in { "Up", "LeftUp", "RightUp" }
      [] bit = 3 -> dpad_state \in { "Down", "LeftDown", "RightDown" }

\* JoypadInput::read_dpad
read_dpad(state) ==
    BitOr(BitOr(IF DPadIs(state.dpad_state, 3) THEN 0 ELSE 8,
                IF DPadIs(state.dpad_state, 2) THEN 0 ELSE 4),
          BitOr(IF DPadIs(state.dpad_state, 1) THEN 0 ELSE 2,
                IF DPadIs(state.dpad_state, 0) THEN 0 ELSE 1))

\* JoypadInput::read_buttons
read_buttons(state) ==
    BitOr(BitOr(IF state.start_pressed THEN 0 ELSE 8,
                IF state.select_pressed THEN 0 ELSE 4),
          BitOr(IF state.b_pressed THEN 0 ELSE 2,
                IF state.a_pressed THEN 0 ELSE 1))

\* JoypadInput::read_state
read_state(j, state) ==
    CASE j.selection = "Buttons" -> read_buttons(state)
      [] j.selection = "DPad"    -> read_dpad(state)
      [] j.selection = "Both"    -> BitAnd(read_buttons(state), read_dpad(state))
      [] j.selection = "None"    -> 207

\* JoypadInput::read
joypad_read(j) == read_state(j, j.inputs)

\* JoypadInput::write
joypad_write(j, value) ==
    [j EXCEPT !.selection =
        CASE Shr(BitAnd(Not8(value), 48), 4) = 0 -> "None"
          [] Shr(BitAnd(Not8(value), 48), 4) = 1 -> "DPad"
          [] Shr(BitAnd(Not8(value), 48), 4) = 2 -> "Buttons"
          [] OTHER                                -> "Both"]

\* JoypadInput::input_changed
input_changed(j) ==
    \E i \in 0 .. 7 :
        /\ BitAnd(read_state(j, j.previous_inputs), 2 ^ i) = 0
        /\ BitAnd(read_state(j, j.inputs), 2 ^ i) # 0

\* JoypadInput::update_inputs
update_inputs(j, input_state) ==
    [j EXCEPT !.previous_inputs = j.inputs, !.inputs = input_state]

\* JoypadInput::step: the joypad after the call and the bool it returns.
JoypadStep(j, input_state) ==
    The({ [joypad_input |-> updated, changed |-> input_changed(updated)]
            : updated \in { update_inputs(j, input_state) } })

-----------------------------------------------------------------------------
(* io/lcd.rs and Ppu::step (ppu/mod.rs).  Of LCDC the model keeps the      *)
(* enable bit; the scroll, window and palette registers and the pixels     *)
(* Ppu::write_scanline draws are left out.                                 *)

SCANLINE_DOTS_LENGTH == 456

SCANLINE_CYCLES_LENGTH == SCANLINE_DOTS_LENGTH \div 4

SCANLINES_PER_FRAME == 154

FRAME_CYCLES_LENGTH == SCANLINES_PER_FRAME * SCANLINE_CYCLES_LENGTH

VBLANK_START_SCANLINE == 144

\* impl From<PpuMode> for u8
U8FromPpuMode(value) ==
    CASE value = "HBlank" -> 0
      [] value = "VBlank" -> 1
      [] value = "OAMScan" -> 2
      [] value = "PixelDraw" -> 3

\* Lcd::new, with LcdControl::new and LcdStatus::new
LcdNew ==
    [ control |-> [lcd_and_ppu_enable |-> FALSE, obj_size |-> "Single",
                   obj_enable |-> FALSE, bg_and_window_enable |-> FALSE],
      lcd_y |-> 0,
      lcd_y_compare |-> 0,
      status |-> [lyc_interrupt_select |-> FALSE,
                  mode_2_interrupt_select |-> FALSE,
                  mode_1_interrupt_select |-> FALSE,
                  mode_0_interrupt_select |-> FALSE,
                  lyc_equals_ly |-> FALSE,
                  ppu_mode |-> "HBlank"] ]

\* Lcd::write_control, LcdControl::set_from_u8
write_control(l, value) ==
    [l EXCEPT !.control.lcd_and_ppu_enable = BitAnd(value, 128) # 0,
              !.control.obj_size = IF BitAnd(Shr(value, 2), 1) = 0
                                   THEN "Single" ELSE "Double",
              !.control.obj_enable = BitAnd(value, 2) # 0,
              !.control.bg_and_window_enable = BitAnd(value, 1) # 0]

\* Lcd::write_status, LcdStatus::set_from_u8: the four select bits are
\* stored, then a value with a mode select bit reaches unimplemented!().
write_status(m, value) ==
    The({ IF status.mode_0_interrupt_select \/ status.mode_1_interrupt_select
             \/ status.mode_2_interrupt_select
          THEN [m EXCEPT !.lcd.status = status,
                         !.fault = << "Panic", "unimplemented", value >>]
          ELSE [m EXCEPT !.lcd.status = status]
            : status \in { [m.lcd.status EXCEPT
                              !.lyc_interrupt_select = BitAnd(value, 64) # 0,
                              !.mode_2_interrupt_select = BitAnd(value, 32) # 0,
                              !.mode_1_interrupt_select = BitAnd(value, 16) # 0,
                              !.mode_0_interrupt_select = BitAnd(value, 8) # 0] } })

\* Lcd::read_status, impl From<&LcdStatus> for u8
read_status(l) ==
    (IF l.status.lyc_interrupt_select THEN 64 ELSE 0)
        + (IF l.status.mode_2_interrupt_select THEN 32 ELSE 0)
        + (IF l.status.mode_1_interrupt_select THEN 16 ELSE 0)
        + (IF l.status.mode_0_interrupt_select THEN 8 ELSE 0)
        + (IF l.status.lyc_equals_ly THEN 4 ELSE 0)
        + U8FromPpuMode(l.status.ppu_mode)

\* Lcd::write_lcd_y: LY alone, the coincidence flag is left as it was.
write_lcd_y(l, value) == [l EXCEPT !.lcd_y = value]

\* Lcd::update_lcd_y
update_lcd_y(l, value) ==
    [l EXCEPT !.lcd_y = value,
              !.status.lyc_equals_ly = (value = l.lcd_y_compare)]

\* Ppu::new
PpuNew == [current_cycles |-> 0, current_scanline |-> 0]

\* A new_mode that never enters VBlank.
NewModeWithoutVBlank(scanline, within_scanline) ==
    CASE within_scanline <= 20 -> "OAMScan"
      [] within_scanline >= 21 /\ within_scanline <= 63 -> "PixelDraw"
      [] within_scanline >= 64 -> "HBlank"

\* The new_mode of Ppu::step.
NewMode(scanline, within_scanline) ==
    IF scanline >= VBLANK_START_SCANLINE THEN "VBlank"
    ELSE CASE within_scanline <= 20 -> "OAMScan"
           [] within_scanline >= 21 /\ within_scanline <= 63 -> "PixelDraw"
           [] within_scanline >= 64 -> "HBlank"

\* Ppu::step: the Ppu and the Lcd after the call and the three values it
\* returns.
PpuStep(p, l, cycles) ==
    IF ~l.control.lcd_and_ppu_enable
    THEN [ ppu |-> p, lcd |-> l, vblank_interrupt |-> FALSE,
           lcd_interrupt |-> FALSE, new_frame |-> FALSE ]
    ELSE The({ The({ The({
           [ ppu |-> [current_cycles |-> current_cycles,
                      current_scanline |-> scanline],
             lcd |-> [updated EXCEPT !.status.ppu_mode = new_mode],
             vblank_interrupt |-> new_mode # old_mode /\ new_mode = "VBlank",
             lcd_interrupt |->
                 \/ /\ new_mode # old_mode
                    /\ \/ /\ new_mode = "HBlank"
                          /\ updated.status.mode_0_interrupt_select
                       \/ /\ new_mode = "VBlank"
                          /\ updated.status.mode_1_interrupt_select
                       \/ /\ new_mode = "OAMScan"
                          /\ updated.status.mode_2_interrupt_select
                 \/ /\ p.current_scanline # scanline
                    /\ updated.status.lyc_interrupt_select
                    /\ updated.status.lyc_equals_ly,
             new_frame |-> /\ p.current_scanline # scanline
                           /\ new_mode = "VBlank"
                           /\ old_mode # "VBlank" ]
               : old_mode \in { updated.status.ppu_mode },
                 new_mode \in { NewMode(scanline,
                                        current_cycles % SCANLINE_CYCLES_LENGTH) } })
             : updated \in { update_lcd_y(l, (current_cycles
                                                \div SCANLINE_CYCLES_LENGTH) % 256) },
               scanline \in { current_cycles \div SCANLINE_CYCLES_LENGTH } })
          : current_cycles \in { (p.current_cycles + cycles)
                                   % FRAME_CYCLES_LENGTH } })

-----------------------------------------------------------------------------
(* Ppu::write_scanline and the object drawing.  The pixel buffer is not    *)
(* kept: a call yields the OAM indices of the objects it draws, in the     *)
(* order of the draw_object calls, the pixel indices it writes and the     *)
(* panic that ends it, if any.  The tile data is an input: tiles.obj_opaque *)
(* says that the colour ids of the object tiles are nonzero, and            *)
(* tiles.bg_opaque the same of the background tiles.                        *)

DISPLAY_HEIGHT_PIXELS == 144

DISPLAY_WIDTH_PIXELS == 160

TOTAL_PIXELS == DISPLAY_HEIGHT_PIXELS * DISPLAY_WIDTH_PIXELS

\* The loop over the objects of write_scanline (mod.rs 233-243): the OAM
\* indices pushed to line_objects.
LineObjects(m, y, height) ==
    { i \in 0 .. 39 :
        /\ OamObject(m, i).y_position >= 16
        /\ y >= OamObject(m, i).y_position - 16
        /\ y < OamObject(m, i).y_position - 16 + height }

\* The place of object i in line_objects after sort_by on x_pos, a stable
\* sort: objects of equal X keep their OAM order.
SortedPosition(m, line_objects, i) ==
    Cardinality({ j \in line_objects :
                    \/ OamObject(m, j).x_position < OamObject(m, i).x_position
                    \/ /\ OamObject(m, j).x_position = OamObject(m, i).x_position
                       /\ j < i }) + 1

\* line_objects.iter().take(10).rev() after the sort: the OAM indices in the
\* order of the draw_object calls.
DrawOrder(m, line_objects) ==
    The({ [k \in 1 .. n |->
              CHOOSE i \in line_objects :
                  SortedPosition(m, line_objects, i) = n + 1 - k]
            : n \in { IF Cardinality(line_objects) < 10
                      THEN Cardinality(line_objects) ELSE 10 } })

\* The loop over x of draw_object_8 and of draw_object_16, which differ in
\* the tile row they take the colour ids from.  obj.x_pos() - 8 is a u8
\* subtraction: below 8 it panics in a build with overflow checks and wraps
\* in one without.  bg_priority[pixel_index] is indexed for every x, in
\* bounds or not.
DrawPixels(obj, y, tiles, bg_priority, overflow_checks) ==
    IF obj.x_position < 8 /\ overflow_checks
    THEN [ written |-> { },
           fault |-> << "Panic", "attempt to subtract with overflow" >> ]
    ELSE The({ [ written |->
                   { y * DISPLAY_WIDTH_PIXELS + obj_x + x
                       : x \in { x \in 0 .. 7 :
                                   /\ y * DISPLAY_WIDTH_PIXELS + obj_x + x
                                          < TOTAL_PIXELS
                                   /\ ~(obj.attributes.priority /\ bg_priority)
                                   /\ tiles.obj_opaque } },
                 fault |->
                   IF y * DISPLAY_WIDTH_PIXELS + obj_x + 7 >= TOTAL_PIXELS
                   THEN << "Panic", "index out of bounds" >>
                   ELSE NoFault ]
                 : obj_x \in { (obj.x_position + 256 - 8) % 256 } })

\* Ppu::draw_object_8
draw_object_8(obj, y, tiles, bg_priority, overflow_checks) ==
    DrawPixels(obj, y, tiles, bg_priority, overflow_checks)

\* Ppu::draw_object_16
draw_object_16(obj, y, tiles, bg_priority, overflow_checks) ==
    DrawPixels(obj, y, tiles, bg_priority, overflow_checks)

\* The draw_object calls k.. of the order, until one panics.
RECURSIVE DrawObjects(_, _, _, _, _, _, _)
DrawObjects(m, order, k, y, tiles, bg_priority, overflow_checks) ==
    IF k > Len(order) THEN [ drawn |-> << >>, written |-> { }, fault |-> NoFault ]
    ELSE The({ IF d.fault # NoFault
               THEN [ drawn |-> << order[k] >>, written |-> d.written,
                      fault |-> d.fault ]
               ELSE The({ [ drawn |-> << order[k] >> \o rest.drawn,
                            written |-> d.written \cup rest.written,
                            fault |-> rest.fault ]
                            : rest \in { DrawObjects(m, order, k + 1, y, tiles,
                                                     bg_priority,
                                                     overflow_checks) } })
                 : d \in { IF m.lcd.control.obj_size = "Single"
                           THEN draw_object_8(OamObject(m, order[k]), y, tiles,
                                              bg_priority, overflow_checks)
                           ELSE draw_object_16(OamObject(m, order[k]), y, tiles,
                                               bg_priority, overflow_checks) } })

\* Ppu::write_scanline: the background row, then the objects.
write_scanline(m, tiles, overflow_checks) ==
    The({ The({ The({ [ y |-> y,
                        line_objects |-> line_objects,
                        drawn |-> objects.drawn,
                        written |-> { y * DISPLAY_WIDTH_PIXELS + x
                                        : x \in 0 .. DISPLAY_WIDTH_PIXELS - 1 }
                                      \cup objects.written,
                        fault |-> objects.fault ]
                        : objects \in
                            { DrawObjects(m, order, 1, y, tiles,
                                          m.lcd.control.bg_and_window_enable
                                              /\ tiles.bg_opaque,
                                          overflow_checks) } })
                  : order \in { DrawOrder(m, line_objects) } })
            : y \in { m.ppu.current_scanline },
              line_objects \in
                  { IF m.lcd.control.obj_enable
                    THEN LineObjects(m, m.ppu.current_scanline,
                                     IF m.lcd.control.obj_size = "Single"
                                     THEN 8 ELSE 16)
                    ELSE { } } })

-----------------------------------------------------------------------------
(* io/mod.rs: the register file behind FF00-FF7F and FFFF.                 *)

\* The addresses IO::read_u8 and IO::write_u8 have an arm for.
IoMapped ==
    { 65280, 65281, 65282 } \cup (65284 .. 65287) \cup { 65295 }
        \cup (65296 .. 65300) \cup (65302 .. 65310) \cup (65312 .. 65318)
        \cup (65328 .. 65343) \cup (65344 .. 65355) \cup { 65360, 65535 }

\* IO::read_u8, for the registers of the interrupt controller and FF50.
IoRead(m, address) ==
    IF address \notin IoMapped
    THEN Fail(<< "MemoryReadFault", address >>)
    ELSE CASE address = 65295 -> Ok(read_interrupt_flag(m))
           [] address = 65535 -> Ok(read_interrupt_enable(m))
           [] address = 65360 -> Ok(m.boot_rom_enable)
           [] address = 65284 -> Ok(read_divider(m.timer))
           [] address = 65285 -> Ok(read_timer_counter(m.timer))
           [] address = 65286 -> Ok(read_timer_modulo(m.timer))
           [] address = 65287 -> Ok(read_timer_control(m.timer))
           [] address = 65350 -> Ok(read_source_address(m.dma))
           [] address = 65280 -> Ok(joypad_read(m.joypad_input))
           [] address = 65345 -> Ok(read_status(m.lcd))
           [] address = 65348 -> Ok(m.lcd.lcd_y)
           [] address = 65349 -> Ok(m.lcd.lcd_y_compare)

\* IO::write_u8, for the registers of the interrupt controller and FF50.
IoWrite(m, address, data) ==
    IF address \notin IoMapped
    THEN [m EXCEPT !.fault = << "MemoryWriteFault", address, data >>]
    ELSE CASE address = 65295 -> write_interrupt_flag(m, data)
           [] address = 65535 -> write_interrupt_enable(m, data)
           [] address = 65360 -> [m EXCEPT !.boot_rom_enable = data]
           [] address = 65284 -> [m EXCEPT !.timer = write_divider(m.timer, data)]
           [] address = 65285 ->
                 [m EXCEPT !.timer = write_timer_counter(m.timer, data)]
           [] address = 65286 ->
                 [m EXCEPT !.timer = write_timer_modulo(m.timer, data)]
           [] address = 65287 ->
                 [m EXCEPT !.timer = write_timer_control(m.timer, data)]
           [] address = 65350 -> [m EXCEPT !.dma = start_new_transfer(m.dma, data)]
           [] address = 65280 ->
                 [m EXCEPT !.joypad_input = joypad_write(m.joypad_input, data)]
           [] address = 65344 -> [m EXCEPT !.lcd = write_control(m.lcd, data)]
           [] address = 65345 -> write_status(m, data)
           [] address = 65348 -> m
           [] address = 65349 -> [m EXCEPT !.lcd.lcd_y_compare = data]

-----------------------------------------------------------------------------
(* bus/mod.rs                                                              *)

\* Bus::boot_rom_enabled
boot_rom_enabled(m) == m.boot_rom_enable = 0

\* The addresses no arm of Bus::read_u8 and Bus::write_u8 names, 0xFFFF
\* aside: A000-BFFF, E000-FDFF and FEA0-FEFF.
Unowned(address) ==
    \/ 40960 <= address /\ address <= 49151
    \/ 57344 <= address /\ address <= 65023
    \/ 65184 <= address /\ address <= 65279

\* Bus::read_u8
ReadU8(m, address) ==
    CASE address \in 0 .. 255 ->
            IF boot_rom_enabled(m)
            THEN RomByte(m.boot_rom, "boot_rom", address)
            ELSE BankByte(m.bank0, "bank0", address)
      [] address \in 256 .. 16383 -> BankByte(m.bank0, "bank0", address)
      [] address \in 16384 .. 32767 -> BankByte(m.bank1, "bank1", address - 16384)
      [] address \in 49152 .. 57343 -> Ok(WorkRamRead(m, address))
      [] address \in 65024 .. 65183 -> Ok(OamRead(m, address))
      [] address \in 65280 .. 65407 -> IoRead(m, address)
      [] address \in 65408 .. 65534 -> Ok(HighRamRead(m, address))
      [] Unowned(address) \/ address = 65535 ->
            Fail(<< "MemoryReadFault", address >>)

\* Bus::write_u8
WriteU8(m, address, data) ==
    CASE address \in 0 .. 32767 -> m
      [] address \in 49152 .. 57343 -> WorkRamWrite(m, address, data)
      [] address \in 65024 .. 65183 -> OamWrite(m, address, data)
      [] address \in 65280 .. 65407 -> IoWrite(m, address, data)
      [] address \in 65408 .. 65534 -> HighRamWrite(m, address, data)
      [] address = 65535 -> IoWrite(m, address, data)
      [] Unowned(address) ->
            [m EXCEPT !.fault = << "MemoryWriteFault", address, data >>]

\* Bus::read_u16
ReadU16(m, address) ==
    The({ IF ~lower.ok THEN lower
          ELSE The({ IF ~higher.ok THEN higher
                     ELSE Ok(higher.val * 256 + lower.val)
                       : higher \in { ReadU8(m, address + 1) } })
            : lower \in { ReadU8(m, address) } })

\* The sum address + 1 of Bus::write_u16, a u16 addition: at 0xFFFF it
\* panics in a build with overflow checks and wraps to 0 in one without.
NextAddress(address, overflow_checks) ==
    IF address + 1 <= 65535 THEN Ok(address + 1)
    ELSE IF overflow_checks THEN Fail(<< "Panic", "attempt to add with overflow" >>)
    ELSE Ok(0)

\* Bus::write_u16
WriteU16Checked(m, address, data, overflow_checks) ==
    The({ IF ~next.ok THEN [m EXCEPT !.fault = next.err]
          ELSE The({ IF m1.fault # NoFault THEN m1
                     ELSE WriteU8(m1, address, BitAnd(data, 255))
                       : m1 \in { WriteU8(m, next.val, Shr(data, 8)) } })
            : next \in { NextAddress(address, overflow_checks) } })

\* Bus::write_u16 below 0xFFFF, where the build makes no difference.
WriteU16(m, address, data) == WriteU16Checked(m, address, data, TRUE)

-----------------------------------------------------------------------------
(* cpu/instruction.rs and Decoder::decode_one.                             *)

\* An Instruction: its variant, register or condition operands, immediate
\* and bit index / restart target.
Instr(op, dst, src, imm, idx) ==
    [op |-> op, dst |-> dst, src |-> src, imm |-> imm, idx |-> idx]

NoOperand ==
    { "Nop", "Rlca", "Rrca", "Rla", "Rra", "Daa", "Cpl", "Scf", "Ccf", "Stop",
      "Halt", "Ret", "Reti", "JpHl", "LdhMemA", "LdhAMem", "LdSpHl", "Di", "Ei" }

AluReg8 ==
    { "AddReg8", "AdcReg8", "SubReg8", "SbcReg8", "AndReg8", "XorReg8",
      "OrReg8", "CpReg8" }

AluImm8 ==
    { "AddImm8", "AdcImm8", "SubImm8", "SbcImm8", "AndImm8", "XorImm8",
      "OrImm8", "CpImm8" }

RotateShift == { "Rlc", "Rrc", "Rl", "Rr", "Sla", "Sra", "Swap", "Srl" }

\* Decoder::read_imm8
read_imm8(m, ip) == ReadU8(m, ip + 1)

\* Decoder::read_imm16
read_imm16(m, ip) == ReadU16(m, ip + 1)

\* The Opcode::Prefix arm of Decoder::decode_one.
decode_prefixed(m, ip) ==
    The({ IF ~pb.ok THEN pb
          ELSE The({ IF prefixed = "Err"
                     THEN Fail(<< "InvalidInstruction", ip >>)
                     ELSE IF prefixed \in RotateShift
                     THEN Ok(Instr(prefixed, read_r8(pb.val, 0), "-", 0, 0))
                     ELSE Ok(Instr(prefixed, read_r8(pb.val, 0), "-", 0,
                                   read_bit_index(pb.val)))
                       : prefixed \in { PrefixedTable[pb.val] } })
            : pb \in { ReadU8(m, ip + 1) } })

\* Decoder::decode_one
decode_one(m) ==
    The({
        LET WithImm8(dst) ==
                The({ IF imm8.ok THEN Ok(Instr(opcode, dst, "-", imm8.val, 0))
                      ELSE imm8
                        : imm8 \in { read_imm8(m, ip) } })
            WithImm16(dst) ==
                The({ IF imm16.ok THEN Ok(Instr(opcode, dst, "-", imm16.val, 0))
                      ELSE imm16
                        : imm16 \in { read_imm16(m, ip) } })
        IN  IF ~ob.ok THEN ob
            ELSE IF opcode = "Err" THEN Fail(<< "InvalidInstruction", ip >>)
            ELSE IF opcode \in NoOperand THEN Ok(Instr(opcode, "-", "-", 0, 0))
            ELSE IF opcode = "LdReg16" THEN WithImm16(read_r16(b, 4))
            ELSE IF opcode \in { "LdMemA", "LdAMem" }
                 THEN Ok(Instr(opcode, read_r16_mem(b, 4), "-", 0, 0))
            ELSE IF opcode \in { "LdImm16Sp", "JpImm", "CallImm", "LdImmA", "LdAImm" }
                 THEN WithImm16("-")
            ELSE IF opcode \in { "Inc16", "Dec16", "AddHl" }
                 THEN Ok(Instr(opcode, read_r16(b, 4), "-", 0, 0))
            ELSE IF opcode \in { "Inc8", "Dec8" }
                 THEN Ok(Instr(opcode, read_r8(b, 3), "-", 0, 0))
            ELSE IF opcode = "LdReg8Imm" THEN WithImm8(read_r8(b, 3))
            ELSE IF opcode \in { "JrImm", "LdhImmA", "LdhAImm", "AddSp",
                                 "LdHlSpImm8" } \cup AluImm8
                 THEN WithImm8("-")
            ELSE IF opcode = "JrCond" THEN WithImm8(read_cond(b))
            ELSE IF opcode = "LdReg8Reg8"
                 THEN Ok(Instr(opcode, read_r8(b, 3), read_r8(b, 0), 0, 0))
            ELSE IF opcode \in AluReg8
                 THEN Ok(Instr(opcode, read_r8(b, 0), "-", 0, 0))
            ELSE IF opcode = "RetCond"
                 THEN Ok(Instr(opcode, read_cond(b), "-", 0, 0))
            ELSE IF opcode \in { "JpCond", "CallCond" } THEN WithImm16(read_cond(b))
            ELSE IF opcode = "Rst" THEN Ok(Instr(opcode, "-", "-", 0, read_tgt(b)))
            ELSE IF opcode \in { "Pop", "Push" }
                 THEN Ok(Instr(opcode, read_r16_stack(b), "-", 0, 0))
            ELSE decode_prefixed(m, ip)
          : ip \in { m.pc },
            ob \in { ReadU8(m, m.pc) },
            b \in { ReadU8(m, m.pc).val },
            opcode \in { OpcodeTable[ReadU8(m, m.pc).val] } })

\* Instruction::length
Length(instruction) ==
    LET op == instruction.op
    IN  IF op \in { "LdReg16", "LdImm16Sp", "JpCond", "JpImm", "CallCond",
                    "CallImm", "LdImmA", "LdAImm" } THEN 3
        ELSE IF op \in { "LdReg8Imm", "JrImm", "JrCond", "LdhImmA", "LdhAImm",
                         "AddSp", "LdHlSpImm8", "Bit", "Res", "Set" }
                    \cup AluImm8 \cup RotateShift THEN 2
        ELSE 1

\* Instruction::base_num_cycles, in M-cycles: the cost of the instruction
\* when no conditional branch is taken (the SM83 timing table).
base_num_cycles(instruction) ==
    LET op == instruction.op
        hl == instruction.dst = "HlIndirect" \/ instruction.src = "HlIndirect"
    IN  CASE op \in { "Nop", "Rlca", "Rrca", "Rla", "Rra", "Daa", "Cpl", "Scf",
                      "Ccf", "Stop", "Halt", "JpHl", "Di", "Ei" } -> 1
          [] op \in { "LdReg8Reg8" } \cup AluReg8 -> IF hl THEN 2 ELSE 1
          [] op \in { "Inc8", "Dec8" } -> IF hl THEN 3 ELSE 1
          [] op = "LdReg8Imm" -> IF hl THEN 3 ELSE 2
          [] op \in { "LdMemA", "LdAMem", "Inc16", "Dec16", "AddHl", "JrCond",
                      "RetCond", "LdhMemA", "LdhAMem", "LdSpHl" } \cup AluImm8 -> 2
          [] op \in { "LdReg16", "JrImm", "JpCond", "CallCond", "Pop", "LdhImmA",
                      "LdhAImm", "LdHlSpImm8" } -> 3
          [] op \in { "Ret", "Reti", "JpImm", "Rst", "Push", "LdImmA", "LdAImm",
                      "AddSp" } -> 4
          [] op = "LdImm16Sp" -> 5
          [] op = "CallImm" -> 6
          [] op \in RotateShift \cup { "Res", "Set" } -> IF hl THEN 4 ELSE 2
          [] op = "Bit" -> IF hl THEN 3 ELSE 2

-----------------------------------------------------------------------------
(* cpu/execution_state.rs and the register helpers of cpu/mod.rs.          *)

\* The Cpu with its Bus, as one value.
Machine ==
    [ pc |-> instruction_pointer, sp |-> stack_pointer,
      a |-> reg_a, bc |-> reg_bc, de |-> reg_de, hl |-> reg_hl,
      flags |-> flags,
      ime |-> interrupts_enabled, ien |-> interrupt_enable_next,
      halted |-> halted,
      interrupt_flag |-> interrupt_flag, interrupt_enable |-> interrupt_enable,
      boot_rom_enable |-> boot_rom_enable,
      boot_rom |-> boot_rom, bank0 |-> bank0, bank1 |-> bank1,
      work_ram |-> work_ram, high_ram |-> high_ram,
      oam |-> oam, timer |-> timer, dma |-> dma, joypad_input |-> joypad_input,
      lcd |-> lcd, ppu |-> ppu,
      fault |-> fault ]

Faulted(m) == m.fault # NoFault

Hi(v) == Shr(v, 8)

Lo(v) == BitAnd(v, 255)

\* impl From<u8> for Flags (execution_state.rs)
FlagsFromU8(value) ==
    [ zero        |-> BitAnd(Shr(value, 7), 1) # 0,
      subtraction |-> BitAnd(Shr(value, 6), 1) # 0,
      half_carry  |-> BitAnd(Shr(value, 5), 1) # 0,
      carry       |-> BitAnd(Shr(value, 4), 1) # 0 ]

\* impl From<Flags> for u8: each flag is 1 or 0 shifted right by 4..7.
U8FromFlags(value) ==
    BitOr(BitOr(Shr(IF value.carry THEN 1 ELSE 0, 4),
                Shr(IF value.half_carry THEN 1 ELSE 0, 5)),
          BitOr(Shr(IF value.subtraction THEN 1 ELSE 0, 6),
                Shr(IF value.zero THEN 1 ELSE 0, 7)))

\* ExecutionState::reg_af
reg_af(m) == BitOr(m.a * 256, U8FromFlags(m.flags))

\* ExecutionState::set_reg_af
set_reg_af(m, value) ==
    [m EXCEPT !.a = Shr(value, 8) % 256,
              !.flags = FlagsFromU8(BitAnd(value, 255))]

\* Cpu::get_r8
get_r8(m, r8) ==
    CASE r8 = "A" -> Ok(m.a)
      [] r8 = "B" -> Ok(Hi(m.bc))
      [] r8 = "C" -> Ok(Lo(m.bc))
      [] r8 = "D" -> Ok(Hi(m.de))
      [] r8 = "E" -> Ok(Lo(m.de))
      [] r8 = "H" -> Ok(Hi(m.hl))
      [] r8 = "L" -> Ok(Lo(m.hl))
      [] r8 = "HlIndirect" -> ReadU8(m, m.hl)

\* Cpu::update_r8
update_r8(m, r8, value) ==
    CASE r8 = "A" -> [m EXCEPT !.a = value]
      [] r8 = "B" -> [m EXCEPT !.bc = BitOr(BitAnd(m.bc, 255), value * 256)]
      [] r8 = "C" -> [m EXCEPT !.bc = BitOr(BitAnd(m.bc, 65280), value)]
      [] r8 = "D" -> [m EXCEPT !.de = BitOr(BitAnd(m.de, 255), value * 256)]
      [] r8 = "E" -> [m EXCEPT !.de = BitOr(BitAnd(m.de, 65280), value)]
      [] r8 = "H" -> [m EXCEPT !.hl = BitOr(BitAnd(m.hl, 255), value * 256)]
      [] r8 = "L" -> [m EXCEPT !.hl = BitOr(BitAnd(m.hl, 65280), value)]
      [] r8 = "HlIndirect" -> WriteU8(m, m.hl, value)

\* Cpu::get_r16_stack
get_r16_stack(m, r16stk) ==
    CASE r16stk = "Af" -> reg_af(m)
      [] r16stk = "Bc" -> m.bc
      [] r16stk = "De" -> m.de
      [] r16stk = "Hl" -> m.hl

\* Cpu::update_r16_stack
update_r16_stack(m, r16stk, value) ==
    CASE r16stk = "Af" -> set_reg_af(m, value)
      [] r16stk = "Bc" -> [m EXCEPT !.bc = value]
      [] r16stk = "De" -> [m EXCEPT !.de = value]
      [] r16stk = "Hl" -> [m EXCEPT !.hl = value]

\* Cpu::get_r16
get_r16(m, r16) ==
    CASE r16 = "Bc" -> m.bc
      [] r16 = "De" -> m.de
      [] r16 = "Hl" -> m.hl
      [] r16 = "Sp" -> m.sp

\* Cpu::update_r16
update_r16(m, r16, value) ==
    CASE r16 = "Bc" -> [m EXCEPT !.bc = value]
      [] r16 = "De" -> [m EXCEPT !.de = value]
      [] r16 = "Hl" -> [m EXCEPT !.hl = value]
      [] r16 = "Sp" -> [m EXCEPT !.sp = value]

-----------------------------------------------------------------------------
(* cpu/alu.rs: each function sets the flags of the machine and returns a   *)
(* value; the model returns the machine after the call and the value.      *)

\* Cpu::generic_add_u8
generic_add_u8(m, v1, v2, with_carry) ==
    The({ The({ The({ [m |-> [m EXCEPT !.flags =
                               [carry |-> (v1 + v2 > 255) \/ (temp + carry > 255),
                                half_carry |-> BitAnd(v1, 15) + BitAnd(v2, 15) + carry > 15,
                                subtraction |-> FALSE,
                                zero |-> result = 0]],
                     val |-> result]
                      : result \in { (temp + carry) % 256 } })
                : temp \in { (v1 + v2) % 256 } })
            : carry \in { IF with_carry /\ m.flags.carry THEN 1 ELSE 0 } })

\* Cpu::add_u8
add_u8(m, v1, v2) == generic_add_u8(m, v1, v2, FALSE)

\* An addition with carry that leaves the carry flag out of the sum.
adc_u8_without_carry(m, v1, v2) == generic_add_u8(m, v1, v2, FALSE)

\* Cpu::adc_u8
adc_u8(m, v1, v2) == generic_add_u8(m, v1, v2, TRUE)

\* Cpu::generic_add_u16
generic_add_u16(m, v1, v2, with_carry, update_zero_flag) ==
    The({ The({ The({ [m |-> [m EXCEPT !.flags =
                               [carry |-> (v1 + v2 > 65535) \/ (temp + carry > 65535),
                                half_carry |->
                                    BitAnd(v1, 4095) + BitAnd(v2, 4095) + carry > 4095,
                                subtraction |-> FALSE,
                                zero |-> IF update_zero_flag THEN result = 0
                                         ELSE m.flags.zero]],
                     val |-> result]
                      : result \in { (temp + carry) % 65536 } })
                : temp \in { (v1 + v2) % 65536 } })
            : carry \in { IF with_carry /\ m.flags.carry THEN 1 ELSE 0 } })

\* Cpu::add_u16
add_u16(m, v1, v2) == generic_add_u16(m, v1, v2, FALSE, TRUE)

\* Cpu::generic_sub_u8: v2 - v1
generic_sub_u8(m, v1, v2, with_carry) ==
    The({ The({ The({ [m |-> [m EXCEPT !.flags =
                               [carry |-> (v2 < v1) \/ (temp < carry),
                                half_carry |-> BitAnd(v2, 15) < BitAnd(v1, 15) + carry,
                                subtraction |-> TRUE,
                                zero |-> result = 0]],
                     val |-> result]
                      : result \in { (temp - carry) % 256 } })
                : temp \in { (v2 - v1) % 256 } })
            : carry \in { IF with_carry /\ m.flags.carry THEN 1 ELSE 0 } })

\* Cpu::sub_u8: v2 - v1
sub_u8(m, v1, v2) == generic_sub_u8(m, v1, v2, FALSE)

\* A decimal adjust of the low digit alone.
decimal_adjust_low_digit(m, a) ==
    The({ [m |-> [m EXCEPT !.flags = [carry |-> m.flags.carry,
                                      half_carry |-> FALSE,
                                      subtraction |-> m.flags.subtraction,
                                      zero |-> result = 0]],
           val |-> result]
            : result \in { IF m.flags.half_carry
                              \/ (~m.flags.subtraction /\ BitAnd(a, 15) > 9)
                           THEN (IF m.flags.subtraction THEN (a - 6) % 256
                                 ELSE (a + 6) % 256)
                           ELSE a } })

\* Cpu::decimal_adjust
decimal_adjust(m, a) ==
    The({ The({ The({ [m |-> [m EXCEPT !.flags =
                                 [carry |-> new_carry,
                                  half_carry |-> FALSE,
                                  subtraction |-> m.flags.subtraction,
                                  zero |-> result = 0]],
                       val |-> result]
                        : result \in { IF m.flags.subtraction
                                       THEN (a - adjustment) % 256
                                       ELSE (a + adjustment) % 256 } })
                  : adjustment \in { (IF m.flags.half_carry
                                         \/ (~m.flags.subtraction
                                               /\ BitAnd(a, 15) > 9)
                                      THEN 6 ELSE 0)
                                     + (IF new_carry THEN 96 ELSE 0) } })
            : new_carry \in { m.flags.carry
                                \/ (~m.flags.subtraction /\ a > 153) } })

\* Cpu::push_u8
push_u8(m, value) ==
    The({ WriteU8([m EXCEPT !.sp = new_sp], new_sp, value)
            : new_sp \in { WrappingSub16(m.sp, 1) } })

\* A push of the low byte first.
push_u16_low_first(m, value) ==
    The({ IF Faulted(m1) THEN m1 ELSE push_u8(m1, Hi(value))
            : m1 \in { push_u8(m, Lo(value)) } })

\* Cpu::push_u16
push_u16(m, value) ==
    The({ IF Faulted(m1) THEN m1 ELSE push_u8(m1, Lo(value))
            : m1 \in { push_u8(m, Hi(value)) } })

\* Cpu::pop_u8: the machine after the pop and the byte popped
pop_u8(m) ==
    The({ IF ~value.ok
          THEN [m |-> [m EXCEPT !.fault = value.err], val |-> 0]
          ELSE [m |-> [m EXCEPT !.sp = Wrap16(m.sp + 1)], val |-> value.val]
            : value \in { ReadU8(m, m.sp) } })

\* Cpu::pop_u16
pop_u16(m) ==
    The({ IF Faulted(lo.m) THEN lo
          ELSE The({ IF Faulted(hi.m) THEN hi
                     ELSE [m |-> hi.m, val |-> hi.val * 256 + lo.val]
                       : hi \in { pop_u8(lo.m) } })
            : lo \in { pop_u8(m) } })

\* Cpu::detect_interrupt
detect_interrupt(m) ==
    highest_priority_triggered_interrupt(m.interrupt_enable, m.interrupt_flag)

\* The vector table of Cpu::call_interrupt_handler
Vector(interrupt) ==
    CASE interrupt = "VBlank" -> 64
      [] interrupt = "Lcd"    -> 72
      [] interrupt = "Timer"  -> 80
      [] interrupt = "Serial" -> 88
      [] interrupt = "Joypad" -> 96

\* Cpu::call_interrupt_handler
call_interrupt_handler(m, interrupt) ==
    The({ IF Faulted(m1) THEN m1 ELSE [m1 EXCEPT !.pc = Vector(interrupt)]
            : m1 \in { push_u16(m, m.pc) } })

\* A service taken whenever an enabled interrupt is pending, whatever IME.
ServicesWhateverIme(m) == detect_interrupt(m) # "None"

\* The interrupt service of Cpu::step (mod.rs 53-64): taken when IME is set
\* and an enabled interrupt is pending.
Services(m) == m.ime /\ detect_interrupt(m) # "None"

service_interrupt(m) ==
    The({ call_interrupt_handler(cleared, interrupt)
            : interrupt \in { detect_interrupt(m) },
              cleared \in { [m EXCEPT !.interrupt_flag =
                                clear_requested_interrupt(m.interrupt_flag,
                                                          detect_interrupt(m)),
                                      !.ime = FALSE] } })

\* The deferred enable of Cpu::step (mod.rs 73-78).  In Rust & binds tighter
\* than !=, so the condition is (next & next) != interrupts_enabled.
commit_interrupt_enable(m) ==
    IF m.ien # m.ime
    THEN [m EXCEPT !.ime = TRUE, !.ien = FALSE]
    ELSE m

-----------------------------------------------------------------------------
(* Cpu::step                                                               *)

\* The match on the decoded instruction (mod.rs 80-355), for the
\* instructions of Executed: the machine, the address of the next
\* instruction and the cycle count after it.
Executed ==
    { "Nop", "LdReg8Reg8", "Halt", "Ret", "Reti", "Di", "Ei", "Push", "Pop",
      "AddHl", "AddSp", "LdHlSpImm8", "CallImm", "Rst", "Stop", "LdImm16Sp" }

\* A DI that disarms the latch and leaves IME alone.
ExecDiLatchOnly(m) == [m EXCEPT !.ien = FALSE]

\* The Instruction::Di arm.
ExecDi(m) == [m EXCEPT !.ime = FALSE, !.ien = FALSE]

\* An EI that sets IME at once.
ExecEiAtOnce(m) == [m EXCEPT !.ime = TRUE]

\* The Instruction::Ei arm.
ExecEi(m) == [m EXCEPT !.ien = TRUE]

Exec(m, instruction, next_instruction_address, cycles) ==
    LET op == instruction.op
        Same(n) == [m |-> n, next |-> next_instruction_address, cycles |-> cycles]
        Jump(p) == [m |-> p.m, cycles |-> cycles,
                    next |-> IF Faulted(p.m) THEN next_instruction_address ELSE p.val]
    IN  CASE op = "Nop" -> Same(m)
          [] op = "LdReg8Reg8" ->
                The({ IF ~val.ok THEN Same([m EXCEPT !.fault = val.err])
                      ELSE The({ Same(n) : n \in { update_r8(m, instruction.dst,
                                                              val.val) } })
                        : val \in { get_r8(m, instruction.src) } })
          [] op = "Halt" -> Same([m EXCEPT !.halted = TRUE])
          [] op = "Ret" -> The({ Jump(p) : p \in { pop_u16(m) } })
          [] op = "Reti" ->
                The({ Jump(p) : p \in { pop_u16([m EXCEPT !.ime = TRUE]) } })
          [] op = "Di" -> Same(ExecDi(m))
          [] op = "Ei" -> Same(ExecEi(m))
          [] op = "Push" ->
                The({ Same(n) : n \in { push_u16(m, get_r16_stack(m, instruction.dst)) } })
          [] op = "Pop" ->
                The({ IF Faulted(p.m) THEN Same(p.m)
                      ELSE Same(update_r16_stack(p.m, instruction.dst, p.val))
                        : p \in { pop_u16(m) } })
          [] op = "AddHl" ->
                The({ Same(update_r16(r.m, instruction.dst, r.val))
                        : r \in { add_u16(m, get_r16(m, "Hl"),
                                          get_r16(m, instruction.dst)) } })
          [] op = "AddSp" ->
                The({ Same([r.m EXCEPT !.sp = r.val])
                        : r \in { add_u16(m, m.sp, instruction.imm) } })
          [] op = "LdHlSpImm8" ->
                The({ Same(update_r16(r.m, "Hl", r.val))
                        : r \in { add_u16(m, m.sp, instruction.imm) } })
          [] op = "CallImm" ->
                The({ Jump([m |-> pushed, val |-> instruction.imm])
                        : pushed \in { push_u16(m, next_instruction_address) } })
          [] op = "Rst" ->
                The({ Jump([m |-> pushed, val |-> instruction.idx])
                        : pushed \in { push_u16(m, next_instruction_address) } })
          [] op = "Stop" ->
                Same([m EXCEPT !.timer = set_divider(m.timer, 0),
                               !.halted = TRUE,
                               !.fault = << "Panic", "todo" >>])
          [] op = "LdImm16Sp" -> Same(WriteU16(m, instruction.imm, m.sp))

\* Cpu::step_dma: the machine after the call and the bool it returns.
step_dma(m, cycles) ==
    The({ [m |-> [m EXCEPT !.dma = r.dma], completed |-> r.completed]
            : r \in { DmaStep(m.dma, cycles) } })

\* One iteration of the loop of Cpu::do_dma_transfer: an Err of the read or
\* of the write is returned at once.
DmaCopyByte(m, source_address, i) ==
    The({ IF ~byte.ok THEN [m EXCEPT !.fault = byte.err]
          ELSE WriteU8(m, 65024 + i, byte.val)
            : byte \in { ReadU8(m, source_address + i) } })

\* The iterations from..to-1 of the loop, in order (the range is halved to
\* keep the evaluation shallow); an Err ends the loop.
RECURSIVE DmaCopy(_, _, _, _)
DmaCopy(m, source_address, from, to) ==
    IF to = from + 1 THEN DmaCopyByte(m, source_address, from)
    ELSE The({ IF Faulted(first) THEN first
               ELSE DmaCopy(first, source_address, (from + to) \div 2, to)
                 : first \in { DmaCopy(m, source_address, from,
                                       (from + to) \div 2) } })

\* Cpu::do_dma_transfer
do_dma_transfer(m) ==
    The({ DmaCopy(m, source_address, 0, DMA_TRANSFER_CYCLES_LENGTH)
            : source_address \in { full_source_address(m.dma) } })

\* The end of Cpu::step (mod.rs 359-361): the DMA controller is stepped, and
\* the whole transfer is done in the step that completes it.
TransferDma(m, cycles) ==
    The({ IF stepped.completed THEN do_dma_transfer(stepped.m) ELSE stepped.m
            : stepped \in { step_dma(m, cycles) } })

NoInstruction == Instr("-", "-", "-", 0, 0)

\* What one call of Cpu::step did: the machine before, the interrupt it
\* serviced ("None" if none), the machine right after the service, the
\* instruction it decoded, the machine after and the cycles returned
\* (0 with an Err, which is in m.fault).
StepResult(pre, svc, mid, instruction, m, ret) ==
    [pre |-> pre, svc |-> svc, mid |-> mid, instr |-> instruction,
     m |-> m, ret |-> ret]

\* The part of Cpu::step from the decode on (mod.rs 66-363).
DecodeAndExecute(pre, svc, mid, cycles) ==
    The({ IF ~current_instruction.ok
          THEN StepResult(pre, svc, mid, NoInstruction,
                          [mid EXCEPT !.fault = current_instruction.err], 0)
          ELSE The({ The({ IF Faulted(e.m)
                           THEN StepResult(pre, svc, mid, instruction, e.m, 0)
                           ELSE The({ StepResult(pre, svc, mid, instruction, after,
                                                 IF Faulted(after) THEN 0
                                                 ELSE e.cycles)
                                        : after \in
                                            { TransferDma([e.m EXCEPT !.pc = e.next],
                                                          e.cycles) } })
                             : e \in { Exec(committed, instruction,
                                            next_instruction_address,
                                            cycles + base_num_cycles(instruction)) } })
                       : instruction \in { current_instruction.val },
                         committed \in { commit_interrupt_enable(mid) },
                         next_instruction_address \in
                             { Wrap16(mid.pc + Length(current_instruction.val)) } })
            : current_instruction \in { decode_one(mid) } })

\* The part of Cpu::step after the halt check (mod.rs 53-363).
ServiceAndExecute(pre, m) ==
    IF Services(m)
    THEN The({ IF Faulted(mid)
               THEN StepResult(pre, detect_interrupt(m), mid, NoInstruction, mid, 0)
               ELSE DecodeAndExecute(pre, detect_interrupt(m), mid, 5)
                 : mid \in { service_interrupt(m) } })
    ELSE DecodeAndExecute(pre, "None", m, 0)

\* A step that takes no notice of the halted flag.
StepFnNeverHalted(m) == ServiceAndExecute(m, m)

\* A step that leaves the halted state only when IME is set.
StepFnWakesOnIme(m) ==
    IF m.halted
    THEN IF m.ime /\ detect_interrupt(m) # "None"
         THEN The({ ServiceAndExecute(m, woken)
                      : woken \in { [m EXCEPT !.halted = FALSE] } })
         ELSE StepResult(m, "None", m, NoInstruction, m, 1)
    ELSE ServiceAndExecute(m, m)

\* Cpu::step
StepFn(m) ==
    IF m.halted
    THEN IF detect_interrupt(m) # "None"
         THEN The({ ServiceAndExecute(m, woken)
                      : woken \in { [m EXCEPT !.halted = FALSE] } })
         ELSE StepResult(m, "None", m, NoInstruction, m, 1)
    ELSE ServiceAndExecute(m, m)

-----------------------------------------------------------------------------
(* The ROM images.  A ROM byte is an input of the run: it is drawn the     *)
(* first time a call reads it and kept from then on.                       *)

\* The bytes the images are made of: NOP, EI, DI, 0x76 (the HALT slot),
\* RETI and the undefined opcode 0xD3.
RomBytes == { 0, 251, 243, 118, 217, 211 }

NeedsRom(m) == Faulted(m) /\ m.fault[1] = "NeedRom"

ExtendRom(m, name, index, byte) ==
    [m EXCEPT ![name] = (index :> byte) @@ m[name]]

\* The results of Cpu::step on machine m, over the ROM bytes it reads that
\* no earlier read has fixed.
RECURSIVE Runs(_)
Runs(m) ==
    UNION { UNION { IF NeedsRom(r.m)
                    THEN UNION { UNION { Runs(extended)
                                           : extended \in { ExtendRom(started, r.m.fault[2],
                                                                      r.m.fault[3], b) } }
                                   : b \in RomBytes }
                    ELSE { r }
                      : r \in { StepFn(started) } }
              : started \in { m } }

-----------------------------------------------------------------------------
(* The specification of the CPU.                                           *)

\* Values a program has written to IE and IF.
InterruptEnables == { 31, 20 }

InterruptFlags == { 0, 26 }

\* The interrupts the peripherals request while the CPU runs.
Requestable == { "VBlank", "Timer" }

NoCall == [fn |-> "-"]

NoStep == [called |-> FALSE]

\* Cpu::new, ExecutionState::new, Bus::new and IO::new, then PC, SP, IME, IE
\* and IF as a program has set them.  The work RAM and the halted flag are
\* set by each specification.
InitMachine(pcs, sps, imes, ies, ifs) ==
    /\ instruction_pointer \in pcs
    /\ stack_pointer \in sps
    /\ reg_a = 0
    /\ reg_bc = 0
    /\ reg_de = 0
    /\ reg_hl = 0
    /\ flags = [zero |-> FALSE, subtraction |-> FALSE, half_carry |-> FALSE,
                carry |-> FALSE]
    /\ interrupts_enabled \in imes
    /\ interrupt_enable_next = FALSE
    /\ interrupt_flag \in ifs
    /\ interrupt_enable \in ies
    /\ boot_rom_enable = 0
    /\ boot_rom = << >>
    /\ bank0 = << >>
    /\ bank1 = << >>
    /\ high_ram = << >>
    /\ oam = << >>
    /\ timer = TimerNew
    /\ dma = DMAControllerNew
    /\ joypad_input = JoypadInputNew
    /\ lcd = LcdNew
    /\ ppu = PpuNew
    /\ fault = NoFault
    /\ steps = 0
    /\ elapsed = -1
    /\ last = NoStep
    /\ trace = << >>
    /\ call = NoCall

Init ==
    /\ InitMachine({ 0 }, { 65535 }, BOOLEAN, InterruptEnables, InterruptFlags)
    /\ halted = FALSE
    /\ work_ram = << >>

\* The machine m becomes the state.
Becomes(m) ==
    /\ instruction_pointer' = m.pc
    /\ stack_pointer' = m.sp
    /\ reg_a' = m.a
    /\ reg_bc' = m.bc
    /\ reg_de' = m.de
    /\ reg_hl' = m.hl
    /\ flags' = m.flags
    /\ interrupts_enabled' = m.ime
    /\ interrupt_enable_next' = m.ien
    /\ halted' = m.halted
    /\ interrupt_flag' = m.interrupt_flag
    /\ interrupt_enable' = m.interrupt_enable
    /\ boot_rom_enable' = m.boot_rom_enable
    /\ boot_rom' = m.boot_rom
    /\ bank0' = m.bank0
    /\ bank1' = m.bank1
    /\ work_ram' = m.work_ram
    /\ high_ram' = m.high_ram
    /\ oam' = m.oam
    /\ timer' = m.timer
    /\ dma' = m.dma
    /\ joypad_input' = m.joypad_input
    /\ lcd' = m.lcd
    /\ ppu' = m.ppu
    /\ fault' = m.fault

\* One call of Cpu::step.  An Err ends the run (the callers unwrap it).
Step ==
    /\ steps < MaxSteps
    /\ fault = NoFault
    /\ \E r \in UNION { Runs(m) : m \in { Machine } } :
          /\ Becomes(r.m)
          /\ last' = [called |-> TRUE, pre |-> r.pre, svc |-> r.svc,
                      mid |-> r.mid, instr |-> r.instr, m |-> r.m,
                      ret |-> r.ret]
          /\ trace' = Append(trace,
                [op |-> r.instr.op, svc |-> r.svc, err |-> Faulted(r.m),
                 ime |-> r.pre.ime, ien |-> r.pre.ien, halted |-> r.pre.halted,
                 ime_at_exec |-> commit_interrupt_enable(r.mid).ime,
                 ime_after |-> r.m.ime, ien_after |-> r.m.ien,
                 halted_after |-> r.m.halted])
    /\ steps' = steps + 1
    /\ UNCHANGED << elapsed, call >>

\* A peripheral requests an interrupt between two steps
\* (Interrupts::set_interrupt_requested).
RequestInterrupt(interrupt) ==
    /\ fault = NoFault
    /\ BitAnd(interrupt_flag, InterruptBit(interrupt)) = 0
    /\ interrupt_flag' = set_interrupt_requested(interrupt_flag, interrupt)
    /\ UNCHANGED << instruction_pointer, stack_pointer, reg_a, reg_bc, reg_de,
                    reg_hl, flags, interrupts_enabled, interrupt_enable_next,
                    halted, interrupt_enable, boot_rom_enable, boot_rom, bank0,
                    bank1, work_ram, high_ram, oam, timer, dma, joypad_input,
                    lcd, ppu, fault, steps, elapsed, last, trace, call >>

Next ==
    \/ Step
    \/ \E interrupt \in Requestable : RequestInterrupt(interrupt)

Spec == Init /\ [][Next]_vars

-----------------------------------------------------------------------------
(* One call of Cpu::step from a chosen state.                              *)

FirstStep == steps = 0 /\ Step

\* The stack of the program: in high RAM, across the lower end of work RAM
\* (0xC001), and in the boot ROM (0x0002).
StackPointers == { 65535, 49153, 2 }

\* The program runs at the cartridge's entry area, 0x0150.
InitService ==
    /\ InitMachine({ 336 }, StackPointers, { TRUE }, InterruptEnables,
                   InterruptFlags)
    /\ halted = FALSE
    /\ work_ram = << >>

NextService ==
    \/ FirstStep
    \/ \E interrupt \in Requestable : RequestInterrupt(interrupt)

SpecService == InitService /\ [][NextService]_vars

\* Every value of IE and IF.
InitInterrupts ==
    /\ InitMachine({ 336 }, { 65535 }, { TRUE }, 0 .. 31, 0 .. 31)
    /\ halted = FALSE
    /\ work_ram = << >>

SpecInterrupts == InitInterrupts /\ [][NextService]_vars

-----------------------------------------------------------------------------
(* The interrupt service.                                                  *)

\* The last step began with IME=1 and (IE & IF & 0x1F) != 0.
BeganToService ==
    /\ last.called
    /\ last.pre.ime
    /\ BitAnd(BitAnd(last.pre.interrupt_enable, last.pre.interrupt_flag), 31) # 0

\* What the service of the last step left: SP two lower, the pre-step PC as
\* the little-endian word at the new SP, one IF bit cleared, the one of the
\* serviced interrupt, and IME false.
ServiceLeft ==
    LET pre == last.pre
        mid == last.mid
    IN  /\ ~Faulted(mid)
        /\ mid.sp = WrappingSub16(pre.sp, 2)
        /\ ReadU16(mid, mid.sp) = Ok(pre.pc)
        /\ last.svc \in Interrupt
        /\ BitAnd(pre.interrupt_flag, InterruptBit(last.svc)) # 0
        /\ mid.interrupt_flag = pre.interrupt_flag - InterruptBit(last.svc)
        /\ mid.ime = FALSE

\* The two bytes a push of a word at sp writes are in work RAM or high RAM.
StackInRam(sp) ==
    \A address \in { WrappingSub16(sp, 1), WrappingSub16(sp, 2) } :
        \/ 49152 <= address /\ address <= 57343
        \/ 65408 <= address /\ address <= 65534

\* C1, as stated: when Cpu::step begins with IME=1 and (IE & IF & 0x1F) != 0,
\* the service pushes the pre-step PC (SP decreases by 2 and the word at the
\* new SP is the pre-step PC), clears the IF bit of the serviced interrupt
\* and no other, and sets IME to false.
C1_ServicePushesPc == BeganToService => ServiceLeft

\* C1, amended: the same, when the two stack bytes below SP are in work RAM
\* or high RAM.  Below 0x8000 the bus drops the writes, and in an unowned
\* range the push fails with MemoryWriteFault.
C1_ServicePushesPcInRam ==
    BeganToService /\ StackInRam(last.pre.sp) => ServiceLeft

\* A service with the stack in RAM has pushed the PC 0x0150.
C1_Serviced ==
    /\ BeganToService
    /\ StackInRam(last.pre.sp)
    /\ last.pre.pc = 336
    /\ Load(last.mid.high_ram, last.mid.sp - 65408) = 80
    /\ Load(last.mid.high_ram, last.mid.sp - 65407) = 1

\* C2: a step that services an interrupt does nothing else: it returns 5
\* M-cycles (20 T-cycles), ends with PC at the vector of the serviced
\* interrupt, and has decoded and executed no instruction.
C2_ServiceDoesNothingElse ==
    last.called /\ last.svc # "None" /\ fault = NoFault =>
        /\ last.ret = 5
        /\ instruction_pointer = Vector(last.svc)
        /\ last.instr = NoInstruction

\* A servicing step has gone on to execute the instruction at the vector.
C2_ServicedAndExecuted ==
    /\ last.called
    /\ last.svc = "Lcd"
    /\ fault = NoFault
    /\ last.instr.op = "Nop"
    /\ instruction_pointer = 73

Priority == << "VBlank", "Lcd", "Timer", "Serial", "Joypad" >>

\* The indices of the bits set in IE & IF & 0x1F.
Triggered(ie, if) ==
    { i \in 1 .. 5 : Shr(BitAnd(BitAnd(ie, if), 31), i - 1) % 2 = 1 }

LowestIndexed(ie, if) ==
    LET triggered == Triggered(ie, if)
    IN  IF triggered = { }
        THEN "None"
        ELSE Priority[CHOOSE i \in triggered : \A j \in triggered : i <= j]

\* C3: highest_priority_triggered_interrupt returns the lowest-indexed bit
\* set in IE & IF (VBlank > LCD > Timer > Serial > Joypad) and None exactly
\* when IE & IF & 0x1F = 0; a servicing step picks that interrupt and leaves
\* every other pending interrupt in IF.
C3_HighestPriority ==
    /\ highest_priority_triggered_interrupt(interrupt_enable, interrupt_flag)
           = LowestIndexed(interrupt_enable, interrupt_flag)
    /\ (highest_priority_triggered_interrupt(interrupt_enable, interrupt_flag)
           = "None") <=> (BitAnd(BitAnd(interrupt_enable, interrupt_flag), 31) = 0)
    /\ last.called /\ last.svc # "None" =>
          LET pre == last.pre
              mid == last.mid
          IN  /\ last.svc = LowestIndexed(pre.interrupt_enable, pre.interrupt_flag)
              /\ \E i \in Triggered(pre.interrupt_enable, pre.interrupt_flag) :
                    /\ Priority[i] = last.svc
                    /\ Triggered(mid.interrupt_enable, mid.interrupt_flag)
                          = Triggered(pre.interrupt_enable, pre.interrupt_flag) \ { i }
                    /\ mid.interrupt_flag = pre.interrupt_flag - InterruptBit(last.svc)

\* A step has serviced LCD with Serial and Joypad pending too, and left them.
C3_ServicedOneOfThree ==
    /\ last.called
    /\ last.svc = "Lcd"
    /\ Triggered(last.pre.interrupt_enable, last.pre.interrupt_flag) = { 2, 4, 5 }
    /\ Triggered(last.mid.interrupt_enable, last.mid.interrupt_flag) = { 4, 5 }

-----------------------------------------------------------------------------
(* EI and DI.                                                              *)

\* Step k executed EI and step k + 1 executed DI.
EiThenDi(k) ==
    /\ k + 1 <= Len(trace)
    /\ trace[k].op = "Ei"
    /\ trace[k + 1].op = "Di"

\* After the EI of step k and the DI of step k + 1: IME is 0 and the latch
\* is disarmed at the end of the DI step, neither step serviced an
\* interrupt, and no later step does before an EI or a RETI has executed.
NothingServicedFrom(k) ==
    /\ ~trace[k + 1].ime_after
    /\ ~trace[k + 1].ien_after
    /\ trace[k].svc = "None"
    /\ trace[k + 1].svc = "None"
    /\ \A j \in k + 2 .. Len(trace) :
          (\A i \in k + 2 .. j - 1 : trace[i].op \notin { "Ei", "Reti" })
              => trace[j].svc = "None"

C5_EiDelaysByOne ==
    \A k \in 1 .. Len(trace) - 1 :
        trace[k].op = "Ei" /\ ~trace[k].ime_at_exec =>
            /\ ~trace[k + 1].ime
            /\ trace[k + 1].svc = "None"
            /\ trace[k + 1].op # "Di" /\ ~trace[k + 1].err =>
                  /\ trace[k + 1].ime_after
                  /\ k + 2 <= Len(trace) => trace[k + 2].ime
                  /\ k + 1 = Len(trace) => interrupts_enabled

\* EI ran with IME=0, a NOP ran after it with an interrupt pending and
\* unserviced, and the step after the NOP serviced the interrupt.
C5_ServicedAfterNext ==
    /\ Len(trace) = 3
    /\ trace[1].op = "Ei"
    /\ ~trace[1].ime_at_exec
    /\ trace[2].op = "Nop"
    /\ trace[2].svc = "None"
    /\ trace[3].ime
    /\ trace[3].svc # "None"
    /\ BitAnd(26, interrupt_enable) # 0

-----------------------------------------------------------------------------
(* The halted CPU.                                                         *)

\* A CPU that an earlier instruction has halted, with IME either way.
InitHalted ==
    /\ InitMachine({ 336 }, { 65535 }, BOOLEAN, InterruptEnables, { 0 })
    /\ halted = TRUE
    /\ work_ram = << >>

SpecHalted == InitHalted /\ [][Next]_vars

\* C6: while the CPU is halted and no interrupt is pending (IE & IF = 0), a
\* step returns 1 M-cycle (4 T-cycles) and changes nothing: PC, SP, the
\* registers, the flags, IME, the EI latch and memory are as before, and the
\* CPU is still halted.
C6_HaltedStepChangesNothing ==
    last.called /\ last.pre.halted
        /\ BitAnd(last.pre.interrupt_enable, last.pre.interrupt_flag) = 0 =>
            /\ last.ret = 1
            /\ last.m = last.pre
            /\ last.m.halted
            /\ halted

\* Two steps in a row have found the CPU halted with nothing pending.
C6_StillHalted ==
    /\ Len(trace) >= 2
    /\ trace[1].halted /\ trace[1].halted_after
    /\ trace[2].halted /\ trace[2].halted_after
    /\ last.ret = 1
    /\ BitAnd(last.pre.interrupt_enable, last.pre.interrupt_flag) = 0
    /\ halted

\* C7: a halted CPU leaves the halted state at the first step that starts
\* with IE & IF != 0, whether IME is 0 or 1; in that step it services the
\* interrupt (IME=1) or goes on to the next instruction (IME=0); it does not
\* stay halted while an enabled interrupt is pending.
C7_HaltEndsWhenPending ==
    \A k \in 1 .. Len(trace) :
        trace[k].halted =>
            /\ trace[k].halted_after <=> trace[k].op = "-" /\ ~trace[k].err
            /\ k = Len(trace) =>
                  IF BitAnd(last.pre.interrupt_enable, last.pre.interrupt_flag) # 0
                  THEN /\ ~halted
                       /\ last.pre.ime => last.svc # "None"
                       /\ ~last.pre.ime =>
                             /\ last.svc = "None"
                             /\ last.instr # NoInstruction \/ fault # NoFault
                  ELSE halted /\ last.svc = "None"

\* A CPU with IME=0 stayed halted for a step, then an interrupt came and the
\* next step left the halted state and executed a NOP.
C7_WokeWithoutIme ==
    /\ Len(trace) = 2
    /\ trace[1].halted /\ trace[1].halted_after
    /\ trace[2].halted /\ ~trace[2].halted_after
    /\ ~trace[2].ime
    /\ trace[2].op = "Nop"
    /\ BitAnd(last.pre.interrupt_enable, last.pre.interrupt_flag) # 0
    /\ ~halted

-----------------------------------------------------------------------------
(* Opcode 0x76.                                                            *)

\* The opcode byte the last step fetched.
Fetched == ReadU8(last.mid, last.mid.pc)

\* C8: opcode byte 0x76 decodes to HALT and not to LD (HL),(HL): after a
\* step that fetched 0x76 the CPU is halted and no load has gone to [HL].
C8_HaltOpcode ==
    last.called /\ last.instr # NoInstruction /\ Fetched = Ok(118) =>
        /\ last.instr.op = "Halt"
        /\ halted

\* A step has fetched 0x76 and executed LD (HL),(HL); the CPU runs on.
C8_LoadedInstead ==
    /\ last.called
    /\ Fetched = Ok(118)
    /\ last.instr.op = "LdReg8Reg8"
    /\ last.instr.dst = "HlIndirect"
    /\ last.instr.src = "HlIndirect"
    /\ ~halted
    /\ fault = NoFault

-----------------------------------------------------------------------------
(* Decoder::decode_one on every opcode byte.                               *)

\* The instruction is in work RAM at 0xC000: one opcode byte, or the prefix
\* 0xCB and the byte after it; its operand bytes are zero.
InitDecode ==
    /\ InitMachine({ 49152 }, { 65535 }, { FALSE }, { 0 }, { 0 })
    /\ halted = FALSE
    /\ work_ram \in { Store(<< >>, 0, b) : b \in 0 .. 255 }
                       \cup { Store(Store(<< >>, 0, 203), 1, b) : b \in 0 .. 255 }

Decode ==
    /\ call = NoCall
    /\ call' = [fn |-> "decode_one",
                first |-> Load(work_ram, 0),
                second |-> Load(work_ram, 1),
                result |-> The({ decode_one(m) : m \in { Machine } })]
    /\ UNCHANGED << instruction_pointer, stack_pointer, reg_a, reg_bc, reg_de,
                    reg_hl, flags, interrupts_enabled, interrupt_enable_next,
                    halted, interrupt_flag, interrupt_enable, boot_rom_enable,
                    boot_rom, bank0, bank1, work_ram, high_ram, oam, timer,
                    dma, joypad_input, lcd, ppu, fault, steps, elapsed, last,
                    trace >>

SpecDecode == InitDecode /\ [][Decode]_vars

\* The opcode bytes the instruction set leaves undefined.
UndefinedOpcodes == { 211, 219, 221, 227, 228, 235, 236, 237, 244, 252, 253 }

\* C9: decode_one fails with InvalidInstruction exactly for the undefined
\* opcode bytes; every other first byte decodes, 0x09/0x19/0x29/0x39 to
\* ADD HL,rr, and every byte after a 0xCB prefix decodes.
C9_InvalidExactlyUndefined ==
    call.fn = "decode_one" =>
        /\ ~call.result.ok <=> call.first \in UndefinedOpcodes
        /\ ~call.result.ok => call.result.err = << "InvalidInstruction", 49152 >>
        /\ call.first \in { 9, 25, 41, 57 } =>
              call.result.ok /\ call.result.val.op = "AddHl"

\* decode_one has failed on 0x09, ADD HL,BC.
C9_AddHlInvalid ==
    /\ call.fn = "decode_one"
    /\ call.first = 9
    /\ call.result = Fail(<< "InvalidInstruction", 49152 >>)

-----------------------------------------------------------------------------
(* Bus::read_u8 and Bus::write_u8 over the address map.                    *)

\* The ends of the work RAM, of the high RAM, of the external-RAM range
\* A000-BFFF, of the echo range E000-FDFF and of the range FEA0-FEFF, then IF
\* and IE.
BusAddresses ==
    { 49152, 57343, 65408, 65534, 40960, 49151, 57344, 65023, 65184, 65279,
      65295, 65535 }

BusData == { 0, 90, 255 }

BusUnchanged ==
    UNCHANGED << instruction_pointer, stack_pointer, reg_a, reg_bc, reg_de,
                 reg_hl, flags, interrupts_enabled, interrupt_enable_next,
                 halted, boot_rom_enable, boot_rom, bank0, bank1, fault, steps,
                 elapsed, last, trace >>

BusRead(address) ==
    /\ call' = [fn |-> "read_u8", address |-> address, data |-> 0,
                result |-> The({ ReadU8(m, address) : m \in { Machine } })]
    /\ UNCHANGED << interrupt_flag, interrupt_enable, work_ram, high_ram, oam,
                    timer, dma, joypad_input, lcd, ppu >>
    /\ BusUnchanged

\* A write that fails returns the Err to its caller.
BusWrite(address, data) ==
    \E m \in { WriteU8(before, address, data) : before \in { Machine } } :
        /\ call' = [fn |-> "write_u8", address |-> address, data |-> data,
                    result |-> IF Faulted(m) THEN Fail(m.fault) ELSE Ok(data)]
        /\ interrupt_flag' = m.interrupt_flag
        /\ interrupt_enable' = m.interrupt_enable
        /\ work_ram' = m.work_ram
        /\ high_ram' = m.high_ram
        /\ oam' = m.oam
        /\ timer' = m.timer
        /\ dma' = m.dma
        /\ joypad_input' = m.joypad_input
        /\ lcd' = m.lcd
        /\ ppu' = m.ppu
        /\ BusUnchanged

InitBus ==
    /\ InitMachine({ 0 }, { 65535 }, { FALSE }, { 0 }, { 0 })
    /\ halted = FALSE
    /\ work_ram = << >>

NextBus ==
    \/ \E address \in BusAddresses : BusRead(address)
    \/ \E address \in BusAddresses, data \in BusData : BusWrite(address, data)

SpecBus == InitBus /\ [][NextBus]_vars

\* C10: Bus::read_u8 of an address in A000-BFFF or FEA0-FEFF returns the
\* value 0xFF and not an error.
C10_UnownedReadsFF ==
    call.fn = "read_u8"
        /\ (\/ call.address \in 40960 .. 49151
            \/ call.address \in 65184 .. 65279) =>
            call.result = Ok(255)

\* A read of 0xA000 has returned MemoryReadFault.
C10_ReadFaulted ==
    /\ call.fn = "read_u8"
    /\ call.address = 40960
    /\ call.result = Fail(<< "MemoryReadFault", 40960 >>)

-----------------------------------------------------------------------------
(* The timer: writes of its registers through the bus and Timer::step      *)
(* calls.  No caller of Timer::step exists in the crate; the cycles are     *)
(* M-cycles, as the names of ClockSelect say.                               *)

\* Number of Timer::step calls explored.
MaxTimerSteps == 4

\* Bus::write_u8 of a timer register.
TimerWrite(address, data) ==
    /\ \E m \in { WriteU8(before, address, data) : before \in { Machine } } :
          /\ Becomes(m)
          /\ call' = [fn |-> "write_u8", address |-> address, data |-> data,
                      result |-> IF Faulted(m) THEN Fail(m.fault) ELSE Ok(data)]
    /\ elapsed' = IF address = 65284 THEN 0 ELSE elapsed
    /\ UNCHANGED << steps, last, trace >>

\* One call of Timer::step.
StepTimer(cycles) ==
    /\ steps < MaxTimerSteps
    /\ \E r \in { TimerStep(t, cycles) : t \in { timer } } :
          /\ Becomes([Machine EXCEPT !.timer = r.timer])
          /\ call' = [fn |-> "Timer::step", cycles |-> cycles, before |-> timer,
                      result |-> r.overflowed]
    /\ elapsed' = IF elapsed < 0 THEN elapsed ELSE elapsed + cycles
    /\ steps' = steps + 1
    /\ UNCHANGED << last, trace >>

\* The registers written are DIV, TIMA, TMA and TAC; written to TAC, 0x00 is
\* disabled, 0x05 enabled every 4 M-cycles and 0xFF enabled every 64 M-cycles.
NextTimer ==
    \/ \E address \in { 65284, 65285, 65286, 65287 }, data \in { 0, 5, 255 } :
          TimerWrite(address, data)
    \/ \E cycles \in { 1, 3, 64, 1024 } : StepTimer(cycles)

SpecTimer == InitBus /\ [][NextTimer]_vars

-----------------------------------------------------------------------------
(* OAM DMA: writes of FF46 and of the source bytes through the bus, and    *)
(* the end of Cpu::step, which steps the controller with the cycles of the *)
(* instruction and copies the 160 bytes when the controller completes.     *)

\* Number of controller steps explored.
MaxDmaSteps == 4

\* Bus::write_u8 of a source byte, while no transfer is in progress.
DmaSourceWrite(address, data) ==
    /\ fault = NoFault
    /\ ~dma.transferring
    /\ \E m \in { WriteU8(before, address, data) : before \in { Machine } } :
          /\ Becomes(m)
          /\ call' = [fn |-> "write_u8", address |-> address, data |-> data,
                      result |-> IF Faulted(m) THEN Fail(m.fault) ELSE Ok(data)]
    /\ UNCHANGED << steps, elapsed, last, trace >>

\* Bus::write_u8(0xFF46, source)
DmaStart(source) ==
    /\ fault = NoFault
    /\ \E m \in { WriteU8(before, 65350, source) : before \in { Machine } } :
          /\ Becomes(m)
          /\ call' = [fn |-> "write_u8", address |-> 65350, data |-> source,
                      result |-> IF Faulted(m) THEN Fail(m.fault) ELSE Ok(source)]
    /\ elapsed' = 0
    /\ UNCHANGED << steps, last, trace >>

\* The end of one Cpu::step call that took the given cycles.
StepDma(cycles) ==
    /\ fault = NoFault
    /\ steps < MaxDmaSteps
    /\ \E m \in { TransferDma(before, cycles) : before \in { Machine } } :
          /\ Becomes(m)
          /\ call' = [fn |-> "DMAController::step", cycles |-> cycles,
                      before |-> dma,
                      result |-> DmaStep(dma, cycles).completed]
    /\ elapsed' = IF elapsed < 0 THEN elapsed ELSE elapsed + cycles
    /\ steps' = steps + 1
    /\ UNCHANGED << last, trace >>

\* The source bytes set are the first object's Y position and attributes
\* (C100, C103) and the last byte of a transfer from C100 (C19F); the
\* transfers read from C000 or from C100.
NextDma ==
    \/ \E address \in { 49408, 49411, 49567 }, data \in { 90, 255 } :
          DmaSourceWrite(address, data)
    \/ \E source \in { 192, 193 } : DmaStart(source)
    \/ \E cycles \in { 4, 50, 160 } : StepDma(cycles)

SpecDma == InitBus /\ [][NextDma]_vars

-----------------------------------------------------------------------------
(* The joypad: writes of FF00 through the bus and JoypadInput::step calls  *)
(* with the state of the host's buttons.  No caller of JoypadInput::step   *)
(* exists in the crate.                                                    *)

\* Bus::write_u8(0xFF00, data)
WriteJoypad(data) ==
    /\ \E m \in { WriteU8(before, 65280, data) : before \in { Machine } } :
          /\ Becomes(m)
          /\ call' = [fn |-> "write_u8", address |-> 65280, data |-> data,
                      result |-> IF Faulted(m) THEN Fail(m.fault) ELSE Ok(data)]
    /\ UNCHANGED << steps, elapsed, last, trace >>

\* One call of JoypadInput::step.
StepJoypad(input_state) ==
    /\ \E r \in { JoypadStep(j, input_state) : j \in { joypad_input } } :
          /\ Becomes([Machine EXCEPT !.joypad_input = r.joypad_input])
          /\ call' = [fn |-> "JoypadInput::step", before |-> joypad_input,
                      input |-> input_state, result |-> r.changed]
    /\ UNCHANGED << steps, elapsed, last, trace >>

\* Written to FF00: 0x10 selects the buttons, 0x20 the pad, 0x00 both and
\* 0x30 neither.  The states of the host's buttons are Start, A and the
\* pad's Down and Left+Up, in every combination.
NextJoypad ==
    \/ \E data \in { 16, 32, 0, 48 } : WriteJoypad(data)
    \/ \E input_state \in
            [ a_pressed : BOOLEAN, b_pressed : { FALSE },
              start_pressed : BOOLEAN, select_pressed : { FALSE },
              dpad_state : { "None", "Down", "LeftUp" } ] :
          StepJoypad(input_state)

SpecJoypad == InitBus /\ [][NextJoypad]_vars

-----------------------------------------------------------------------------
(* The AF register pair: ExecutionState::set_reg_af followed by reg_af, and *)
(* the execution of PUSH AF followed by POP AF.                             *)

\* ExecutionState::set_reg_af(value) followed by ExecutionState::reg_af().
SetRegAf(value) ==
    /\ fault = NoFault
    /\ \E m \in { set_reg_af(before, value) : before \in { Machine } } :
          /\ Becomes(m)
          /\ call' = [fn |-> "set_reg_af", value |-> value,
                      result |-> reg_af(m)]
    /\ UNCHANGED << steps, elapsed, last, trace >>

\* The Push and Pop arms of Cpu::step for AF, one after the other.
PushPopAf ==
    /\ fault = NoFault
    /\ \E m \in { Exec(pushed, Instr("Pop", "Af", "-", 0, 0), pushed.pc, 0).m
                     : pushed \in { Exec(before, Instr("Push", "Af", "-", 0, 0),
                                         before.pc, 0).m
                                      : before \in { Machine } } } :
          /\ Becomes(m)
          /\ call' = [fn |-> "push_pop_af", value |-> 0, before |-> flags,
                      result |-> reg_af(m)]
    /\ UNCHANGED << steps, elapsed, last, trace >>

\* The values given to set_reg_af are every F under A = 0x12, 0x00F0 and
\* 0xFFFF.
NextAf ==
    \/ \E value \in { 18 * 256 + f : f \in 0 .. 255 } \cup { 240, 65535 } :
          SetRegAf(value)
    \/ PushPopAf

SpecAf == InitBus /\ [][NextAf]_vars

-----------------------------------------------------------------------------
(* The PPU: writes of LCDC, STAT and LYC through the bus, and calls of     *)
(* Bus::step_ppu with the cycles of an instruction.  No caller of          *)
(* Bus::step_ppu exists in the crate.                                      *)

\* Bus::write_u8 of FF40, FF41 or FF45.
WriteLcd(address, data) ==
    /\ fault = NoFault
    /\ \E m \in { WriteU8(before, address, data) : before \in { Machine } } :
          /\ Becomes(m)
          /\ call' = [fn |-> "write_u8", address |-> address, data |-> data,
                      result |-> IF Faulted(m) THEN Fail(m.fault) ELSE Ok(data)]
          /\ elapsed' = IF m.lcd.control.lcd_and_ppu_enable THEN elapsed ELSE -1
    /\ UNCHANGED << steps, last, trace >>

\* Bus::step_ppu(cycles).  The cycles stepped since the last frame are
\* counted while the LCD stays enabled; a step that returns new_frame
\* records the count as frame_cycles.
StepPpu(cycles) ==
    /\ fault = NoFault
    /\ \E r \in { PpuStep(p, l, cycles) : p \in { ppu }, l \in { lcd } } :
          /\ Becomes([Machine EXCEPT !.ppu = r.ppu, !.lcd = r.lcd])
          /\ call' = [fn |-> "Ppu::step",
                      vblank_interrupt |-> r.vblank_interrupt,
                      lcd_interrupt |-> r.lcd_interrupt,
                      new_frame |-> r.new_frame,
                      frame_cycles |-> IF r.new_frame /\ elapsed >= 0
                                       THEN elapsed + cycles ELSE -1]
          /\ elapsed' = IF ~lcd.control.lcd_and_ppu_enable THEN -1
                        ELSE IF r.new_frame THEN 0
                        ELSE IF elapsed < 0 THEN elapsed
                        ELSE elapsed + cycles
    /\ UNCHANGED << steps, last, trace >>

\* Written to LCDC: 0x80 enables the LCD, 0x00 disables it.  Written to
\* STAT: 0x40 selects the LYC interrupt, 0x08 the mode 0 interrupt.  Written
\* to LYC: the first line of VBlank and line 0.  An instruction takes 4 or 8
\* cycles.
NextPpu ==
    \/ \E data \in { 128, 0 } : WriteLcd(65344, data)
    \/ \E data \in { 64, 0, 8 } : WriteLcd(65345, data)
    \/ \E data \in { 144, 0 } : WriteLcd(65349, data)
    \/ \E cycles \in { 4, 8 } : StepPpu(cycles)

SpecPpu == InitBus /\ [][NextPpu]_vars

-----------------------------------------------------------------------------
(* The boot ROM overlay: writes of FF50 and reads of 0000-00FF through the *)
(* bus.  The bytes of the two images are drawn when first read.            *)

\* Bus::write_u8(0xFF50, data)
WriteBootRomEnable(data) ==
    /\ \E m \in { WriteU8(before, 65360, data) : before \in { Machine } } :
          /\ Becomes(m)
          /\ call' = [fn |-> "write_u8", address |-> 65360, data |-> data,
                      result |-> IF Faulted(m) THEN Fail(m.fault) ELSE Ok(data)]
    /\ elapsed' = IF data # 0 THEN 0 ELSE elapsed
    /\ UNCHANGED << steps, last, trace >>

\* Bus::read_u8(address) of an address below 0x0100.
ReadRom(address, byte) ==
    /\ \E m \in { IF ~r.ok /\ r.err[1] = "NeedRom"
                  THEN ExtendRom(before, r.err[2], r.err[3], byte)
                  ELSE before
                    : r \in { ReadU8(Machine, address) },
                      before \in { Machine } } :
          /\ Becomes(m)
          /\ call' = [fn |-> "read_u8", address |-> address, data |-> 0,
                      result |-> ReadU8(m, address)]
    /\ UNCHANGED << steps, elapsed, last, trace >>

\* The bytes read are the first and the last of the overlay; a byte of an
\* image is 0x31 or 0xC3.
NextBoot ==
    \/ \E data \in { 0, 1, 255 } : WriteBootRomEnable(data)
    \/ \E address \in { 0, 255 }, byte \in { 49, 195 } : ReadRom(address, byte)

SpecBoot == InitBus /\ [][NextBoot]_vars

-----------------------------------------------------------------------------
(* The arithmetic of the CPU and its stack helpers, each applied once to   *)
(* registers a program has loaded.                                         *)

\* The packed-BCD byte of n, for n in 0 .. 99.
Bcd(n) == (n \div 10) * 16 + (n % 10)

\* The registers and flags as a program has set them (the setters of
\* ExecutionState).
SetOperands(operands) ==
    /\ steps = 0
    /\ \E o \in operands :
          Becomes([Machine EXCEPT !.a = o.a, !.bc = o.bc, !.hl = o.hl,
                                  !.sp = o.sp, !.flags = FlagsFromU8(o.f)])
    /\ steps' = 1
    /\ UNCHANGED << elapsed, last, trace, call >>

\* Cpu::push_u16(value) followed by Cpu::pop_u16().
PushPopU16(value) ==
    /\ steps = 1
    /\ \E p \in { IF Faulted(pushed) THEN [m |-> pushed, val |-> 0]
                  ELSE pop_u16(pushed)
                    : pushed \in { push_u16(before, value)
                                     : before \in { Machine } } } :
          /\ Becomes(p.m)
          /\ call' = [fn |-> "push_pop_u16", value |-> value,
                      sp |-> stack_pointer,
                      result |-> IF Faulted(p.m) THEN Fail(p.m.fault)
                                 ELSE Ok(p.val)]
    /\ steps' = 2
    /\ UNCHANGED << elapsed, last, trace >>

\* One call of an 8-bit function of the ALU on A and B: add_u8, adc_u8, or
\* decimal_adjust on the result and flags of add_u8(A, B) or of
\* sub_u8(B, A), which computes A - B.
Alu8(fn) ==
    /\ steps = 1
    /\ \E r \in { CASE fn = "add_u8" -> add_u8(m, m.a, Hi(m.bc))
                    [] fn = "adc_u8" -> adc_u8(m, m.a, Hi(m.bc))
                    [] fn = "add_u8_daa" ->
                          The({ decimal_adjust(s.m, s.val)
                                  : s \in { add_u8(m, m.a, Hi(m.bc)) } })
                    [] fn = "sub_u8_daa" ->
                          The({ decimal_adjust(s.m, s.val)
                                  : s \in { sub_u8(m, Hi(m.bc), m.a) } })
                    : m \in { Machine } } :
          /\ Becomes(r.m)
          /\ call' = [fn |-> fn, v1 |-> reg_a, v2 |-> Hi(reg_bc),
                      before |-> flags, result |-> r.val]
    /\ steps' = 2
    /\ UNCHANGED << elapsed, last, trace >>

\* One arm of the match of Cpu::step, applied to the instruction.
Execute(instruction) ==
    /\ steps = 1
    /\ \E e \in { Exec(m, instruction, m.pc, 0) : m \in { Machine } } :
          /\ Becomes(e.m)
          /\ call' = [fn |-> instruction.op, instr |-> instruction,
                      before |-> [bc |-> reg_bc, hl |-> reg_hl,
                                  sp |-> stack_pointer, flags |-> flags]]
    /\ steps' = 2
    /\ UNCHANGED << elapsed, last, trace >>

\* The stack pointers put the two bytes of a push in high RAM (FFFF, FF82),
\* in work RAM (E000, C002), half outside RAM (C001, FF81), in ROM (0002),
\* in OAM (FEA0) and across IE (0000).  The bytes added are the ends of the
\* nibbles and of the byte, under four settings of the flags, and every pair
\* of packed-BCD bytes.  The words added put a carry out of bit 11, out of
\* bit 15 and out of neither; the immediates are +1 and -1.
NextAlu ==
    \/ SetOperands([ a : { 0 }, bc : { 0 }, hl : { 0 }, f : { 0 },
                     sp : { 65535, 65410, 57344, 49154, 49153, 65409, 2,
                            65184, 0 } ])
    \/ SetOperands([ a : { 0, 1, 15, 16, 127, 128, 240, 255 },
                     bc : { b * 256 : b \in { 0, 1, 15, 16, 127, 128, 240, 255 } },
                     hl : { 0 }, sp : { 65535 }, f : { 0, 16, 160, 240 } ])
    \/ SetOperands([ a : { Bcd(x) : x \in 0 .. 99 },
                     bc : { Bcd(y) * 256 : y \in 0 .. 99 },
                     hl : { 0 }, sp : { 65535 }, f : { 0 } ])
    \/ SetOperands([ a : { 0 }, bc : { 1, 4660, 32768 },
                     hl : { 0, 4095, 32768, 65535 },
                     sp : { 1, 255, 65528, 65535 }, f : { 0, 128, 240 } ])
    \/ \E fn \in { "add_u8", "adc_u8", "add_u8_daa", "sub_u8_daa" } : Alu8(fn)
    \/ \E r16 \in { "Bc", "Hl" } : Execute(Instr("AddHl", r16, "-", 0, 0))
    \/ \E op \in { "AddSp", "LdHlSpImm8" }, imm8 \in { 1, 255 } :
          Execute(Instr(op, "-", "-", imm8, 0))
    \/ \E value \in { 4660, 255, 65280, 0 } : PushPopU16(value)

SpecAlu == InitBus /\ [][NextAlu]_vars

-----------------------------------------------------------------------------
(* C11                                                                     *)

\* The addresses of work RAM (C000-DFFF) and high RAM (FF80-FFFE).
InRam(address) ==
    \/ 49152 <= address /\ address <= 57343
    \/ 65408 <= address /\ address <= 65534

\* C11: a write_u8 of v to an address a of work RAM or high RAM succeeds, a
\* read_u8 of a then returns v, and the read of every other address returns
\* what it returned before the write.
C11_RamWriteThenRead ==
    [][\A a \in BusAddresses, v \in BusData :
          (InRam(a) /\ call'.fn = "write_u8" /\ call'.address = a
                    /\ call'.data = v) =>
              /\ call'.result = Ok(v)
              /\ ReadU8(Machine', a) = Ok(v)
              /\ \A b \in BusAddresses \ { a } :
                     ReadU8(Machine', b) = ReadU8(Machine, b)]_vars

\* 0x5A was written to 0xDFFF over another value and is read back, while
\* 0xC000 and 0xFFFE still hold what was written to them.
C11_WrittenAndReadBack ==
    /\ call.fn = "write_u8"
    /\ call.address = 57343
    /\ call.result = Ok(90)
    /\ ReadU8(Machine, 57343) = Ok(90)
    /\ ReadU8(Machine, 49152) = Ok(255)
    /\ ReadU8(Machine, 65534) = Ok(255)

-----------------------------------------------------------------------------
(* C12                                                                     *)

\* C12: after write_u8(0xFFFF, v) has succeeded, read_u8(0xFFFF) succeeds and
\* returns v & 0x1F.
C12_InterruptEnableReadBack ==
    (call.fn = "write_u8" /\ call.address = 65535 /\ call.result.ok) =>
        ReadU8(Machine, 65535) = Ok(BitAnd(call.data, 31))

\* IE holds 0x1A, the low five bits of a 0x5A written through the bus, and
\* a read of 0xFFFF has returned MemoryReadFault.
C12_ReadOfIeFaulted ==
    /\ interrupt_enable = 26
    /\ call.fn = "read_u8"
    /\ call.address = 65535
    /\ call.result = Fail(<< "MemoryReadFault", 65535 >>)

-----------------------------------------------------------------------------
(* C13, C14, C15                                                           *)

\* The full periods of the selected clock that a Timer::step call of the
\* given cycles completes on timer t.
FullPeriods(t, cycles) == (t.cycles + cycles) \div cycles_value(t.clock_select)

\* C13: when Timer::step calls have passed a total of N T-cycles (4 per
\* M-cycle) since a write to FF04, a read of FF04 returns
\* floor(N / 256) mod 256.
C13_DivCounts256TCycles ==
    elapsed >= 0 =>
        ReadU8(Machine, 65284) = Ok(((4 * elapsed) \div 256) % 256)

\* One M-cycle after a write to FF04, DIV reads 1.
C13_DivAfterOneCycle ==
    /\ elapsed = 1
    /\ call.fn = "Timer::step"
    /\ ReadU8(Machine, 65284) = Ok(1)

\* C14: a Timer::step call on an enabled timer adds to TIMA the full periods
\* of the TAC-selected clock it completes (when that does not carry TIMA past
\* 0xFF), and a call on a disabled timer leaves TIMA as it was.
C14_TimaAdvances ==
    [][steps' = steps + 1 =>
          /\ (timer.enable
                  /\ timer.timer_counter + FullPeriods(timer, call'.cycles) <= 255) =>
                 ReadU8(Machine', 65285) =
                     Ok(timer.timer_counter + FullPeriods(timer, call'.cycles))
          /\ ~timer.enable =>
                 ReadU8(Machine', 65285) = ReadU8(Machine, 65285)]_vars

\* A step of 3 M-cycles after one of 1 M-cycle has completed a period of the
\* 4 M-cycle clock on an enabled timer, and TIMA is still 0.
C14_PeriodPassedTimaStill ==
    /\ call.fn = "Timer::step"
    /\ call.before.enable
    /\ call.before.clock_select = "Every4MCycles"
    /\ call.before.cycles = 1
    /\ call.cycles = 3
    /\ call.before.timer_counter = 0
    /\ ReadU8(Machine, 65285) = Ok(0)

-----------------------------------------------------------------------------
(* C16, C17                                                                *)

\* C16: when a transfer started by a write of n to FF46 has completed, the
\* byte read at FE00+i is the byte read at n*0x100+i, for every i in 0..159.
C16_DmaCopiesIdentically ==
    (call.fn = "DMAController::step" /\ call.result /\ fault = NoFault) =>
        \A i \in 0 .. 159 :
            ReadU8(Machine, 65024 + i) =
                ReadU8(Machine, call.before.source_reg * 256 + i)

\* A transfer from C100 has completed: the 0x5A at C103 reads 0x50 at FE03,
\* while the 0x5A at C100 reads 0x5A at FE00.
C16_AttributeNibbleLost ==
    /\ call.fn = "DMAController::step"
    /\ call.result
    /\ call.before.source_reg = 193
    /\ ReadU8(Machine, 49411) = Ok(90)
    /\ ReadU8(Machine, 65027) = Ok(80)
    /\ ReadU8(Machine, 49408) = Ok(90)
    /\ ReadU8(Machine, 65024) = Ok(90)

\* C17: a controller step returns true exactly when the cycles stepped since
\* the last write to FF46 reach 160 in it, and the transfer is in progress
\* after a step exactly while they are below 160; a write to FF46 puts the
\* transfer in progress with a count of 0.
C17_DmaCompletesAt160 ==
    [][((steps' = steps + 1 /\ elapsed >= 0) =>
           /\ call'.result =
                  (elapsed < DMA_TRANSFER_CYCLES_LENGTH
                      /\ elapsed' >= DMA_TRANSFER_CYCLES_LENGTH)
           /\ dma'.transferring = (elapsed' < DMA_TRANSFER_CYCLES_LENGTH))
       /\ ((call'.fn = "write_u8" /\ call'.address = 65350) =>
              (dma'.transferring /\ dma'.cycles_in = 0))]_vars

\* Three steps of 50 cycles after the write to FF46: the third has returned
\* true with 150 cycles stepped.
C17_CompletedEarly ==
    /\ call.fn = "DMAController::step"
    /\ call.result
    /\ call.cycles = 50
    /\ elapsed = 150
    /\ ~dma.transferring

-----------------------------------------------------------------------------
(* C18                                                                     *)

\* C18: a read_u8 of FF0F returns 0xE0 | IF: bits 7..5 set, bits 4..0 the
\* five request flags.
C18_IfReadsUpperBitsSet ==
    (call.fn = "read_u8" /\ call.address = 65295) =>
        call.result = Ok(BitOr(224, BitAnd(interrupt_flag, 31)))

\* After a write of 0xFF to FF0F all five flags are set and a read of FF0F
\* has returned 0x1F.
C18_IfReadWithoutUpperBits ==
    /\ call.fn = "read_u8"
    /\ call.address = 65295
    /\ interrupt_flag = 31
    /\ call.result = Ok(31)

-----------------------------------------------------------------------------
(* C19                                                                     *)

\* C19: JoypadInput::step returns true exactly when one of the four lines
\* read with the current selection goes from high (released) under the
\* inputs of the step before to low (pressed) under the inputs of this step.
C19_JoypadReportsPress ==
    call.fn = "JoypadInput::step" =>
        call.result =
            (\E line \in 0 .. 3 :
                /\ BitAnd(read_state(call.before, call.before.inputs), 2 ^ line) # 0
                /\ BitAnd(read_state(call.before, call.input), 2 ^ line) = 0)

\* With the buttons selected (0x10 written) and nothing held, a step with
\* only Start pressed has returned false.
C19_StartPressNotReported ==
    /\ call.fn = "JoypadInput::step"
    /\ call.before.selection = "Buttons"
    /\ call.before.inputs = InputStateEmpty
    /\ call.input = [InputStateEmpty EXCEPT !.start_pressed = TRUE]
    /\ call.result = FALSE
    /\ ReadU8(Machine, 65280) = Ok(7)

-----------------------------------------------------------------------------
(* C20                                                                     *)

\* C20: set_reg_af(v) followed by reg_af() returns v & 0xFFF0, and the flags
\* after PUSH AF followed by POP AF are the flags before.
C20_AfKeepsFlags ==
    /\ call.fn = "set_reg_af" => call.result = BitAnd(call.value, 65520)
    /\ call.fn = "push_pop_af" => flags = call.before

\* set_reg_af(0x12F0) has set A to 0x12 and all four flags, and reg_af() has
\* returned 0x1200.
C20_FlagsReadAsZero ==
    /\ call.fn = "set_reg_af"
    /\ call.value = 4848
    /\ reg_a = 18
    /\ flags = [zero |-> TRUE, subtraction |-> TRUE, half_carry |-> TRUE,
                carry |-> TRUE]
    /\ call.result = 4608

-----------------------------------------------------------------------------
(* C21                                                                     *)

-----------------------------------------------------------------------------
(* C27                                                                     *)

\* C27: add_u8(a, b) returns (a + b) mod 256 with C = (a + b >= 256),
\* H = ((a & 0xF) + (b & 0xF) > 0xF), Z = (result = 0) and N = 0, whatever
\* the flags were; adc_u8 does the same with the incoming carry added to
\* both sums.
C27_AddSetsFlags ==
    call.fn \in { "add_u8", "adc_u8" } =>
        \A c \in { IF call.fn = "adc_u8" /\ call.before.carry THEN 1 ELSE 0 } :
            /\ call.result = (call.v1 + call.v2 + c) % 256
            /\ flags.carry = (call.v1 + call.v2 + c >= 256)
            /\ flags.half_carry = ((call.v1 % 16) + (call.v2 % 16) + c > 15)
            /\ flags.zero = (call.result = 0)
            /\ flags.subtraction = FALSE

\* adc_u8(0xFF, 0x00) with the carry set has returned 0 with C, H and Z.
C27_CarryInCarriedOut ==
    /\ call.fn = "adc_u8"
    /\ call.v1 = 255 /\ call.v2 = 0 /\ call.before.carry
    /\ call.result = 0
    /\ flags = [zero |-> TRUE, subtraction |-> FALSE, half_carry |-> TRUE,
                carry |-> TRUE]

-----------------------------------------------------------------------------
(* C30                                                                     *)

\* The number a packed-BCD byte stands for.
Unbcd(b) == (b \div 16) * 10 + (b % 16)

IsBcd(b) == (b \div 16) <= 9 /\ (b % 16) <= 9

\* C30: for packed-BCD bytes x and y, decimal_adjust applied to the result
\* and flags of add_u8(x, y) returns the packed BCD of (x + y) mod 100 with
\* C = (x + y >= 100), and applied to the result and flags of x - y it
\* returns the packed BCD of (x - y) mod 100 with C = (x < y); in both cases
\* Z = (result = 0), H = 0 and N is as the addition or subtraction left it.
C30_DecimalAdjust ==
    call.fn \in { "add_u8_daa", "sub_u8_daa" } /\ IsBcd(call.v1) /\ IsBcd(call.v2) =>
        \A x \in { Unbcd(call.v1) }, y \in { Unbcd(call.v2) } :
            /\ call.fn = "add_u8_daa" =>
                  /\ call.result = Bcd((x + y) % 100)
                  /\ flags.carry = (x + y >= 100)
                  /\ flags.subtraction = FALSE
            /\ call.fn = "sub_u8_daa" =>
                  /\ call.result = Bcd((x - y) % 100)
                  /\ flags.carry = (x < y)
                  /\ flags.subtraction = TRUE
            /\ flags.zero = (call.result = 0)
            /\ flags.half_carry = FALSE

\* 0x58 + 0x67 has been adjusted to 0x25 with the carry set, the BCD of 125.
C30_AdjustedWithCarry ==
    /\ call.fn = "add_u8_daa"
    /\ call.v1 = 88 /\ call.v2 = 103
    /\ call.result = 37
    /\ flags = [zero |-> FALSE, subtraction |-> FALSE, half_carry |-> FALSE,
                carry |-> TRUE]

-----------------------------------------------------------------------------
(* C28                                                                     *)

-----------------------------------------------------------------------------
(* C29                                                                     *)

\* The value of an 8-bit immediate read as a signed number.
SignExtend(imm8) == IF imm8 >= 128 THEN imm8 - 256 ELSE imm8

\* C29: ADD SP,i8 stores SP plus the sign-extended immediate, modulo 2^16,
\* in SP, and LD HL,SP+i8 stores it in HL and leaves SP as it was; both
\* clear Z and N, and set H and C on the carry out of bit 3 and out of bit 7
\* of the sum of SP's low byte and the immediate byte.
C29_AddSpSigned ==
    call.fn \in { "AddSp", "LdHlSpImm8" } =>
        /\ call.fn = "AddSp" =>
              stack_pointer = (call.before.sp + SignExtend(call.instr.imm)) % 65536
        /\ call.fn = "LdHlSpImm8" =>
              /\ reg_hl = (call.before.sp + SignExtend(call.instr.imm)) % 65536
              /\ stack_pointer = call.before.sp
        /\ flags.zero = FALSE
        /\ flags.subtraction = FALSE
        /\ flags.half_carry = ((call.before.sp % 16) + (call.instr.imm % 16) > 15)
        /\ flags.carry = ((call.before.sp % 256) + call.instr.imm > 255)

\* ADD SP,0xFF with SP = 0xFFF8 has left SP = 0x00F7: 255 was added.
C29_AddedUnsigned ==
    /\ call.fn = "AddSp"
    /\ call.instr.imm = 255
    /\ call.before.sp = 65528
    /\ stack_pointer = 247

-----------------------------------------------------------------------------
(* C22                                                                     *)

\* C22: once a nonzero value has been written to FF50, every later read of
\* 0000-00FF returns the byte of cartridge bank 0, whatever has been written
\* to FF50 since.
C22_BootRomStaysDisabled ==
    elapsed >= 0 /\ call.fn = "read_u8" /\ call.address \in DOMAIN bank0 =>
        call.result = Ok(bank0[call.address])

\* After a write of 0x01 and then of 0x00 to FF50, a read of 0x0000 has
\* returned the byte of the boot ROM, which is not that of bank 0.
C22_BootRomBack ==
    /\ elapsed >= 0
    /\ boot_rom_enable = 0
    /\ call.fn = "read_u8" /\ call.address = 0
    /\ 0 \in DOMAIN bank0 /\ 0 \in DOMAIN boot_rom
    /\ bank0[0] = 195 /\ boot_rom[0] = 49
    /\ call.result = Ok(49)

-----------------------------------------------------------------------------
(* C23                                                                     *)

\* The mode bits of STAT, as a read of FF41 returns them.
StatMode == BitAnd(read_status(lcd), 3)

\* C23: with the LCD enabled, after Ppu::step the STAT mode is, on scanlines
\* 0..143, mode 2 for the first 20 cycles of the line, mode 3 for the next
\* 43 and mode 0 for the rest of the 114; on scanlines 144..153 it is mode 1.
C23_ModeByPosition ==
    call.fn = "Ppu::step" /\ lcd.control.lcd_and_ppu_enable =>
        \A scanline \in { ppu.current_cycles \div 114 },
           within_scanline \in { ppu.current_cycles % 114 } :
            StatMode = IF scanline >= 144 THEN 1
                       ELSE IF within_scanline < 20 THEN 2
                       ELSE IF within_scanline < 63 THEN 3
                       ELSE 0

\* 20 cycles (80 dots) into scanline 0 the STAT mode is still 2.
C23_OamScanAt80Dots ==
    /\ call.fn = "Ppu::step"
    /\ lcd.control.lcd_and_ppu_enable
    /\ ppu.current_cycles = 20
    /\ lcd.lcd_y = 0
    /\ StatMode = 2

-----------------------------------------------------------------------------
(* C24                                                                     *)

\* C24: while the LCD is enabled, Ppu::step returns frame_ready, and the
\* VBlank interrupt, in exactly the steps in which LY goes from 143 to 144,
\* and the cycles stepped from one frame_ready to the next are one frame,
\* 17,556, give or take one instruction (less than 8 cycles).
C24_FrameReadyAtVBlank ==
    [][ call'.fn = "Ppu::step" /\ lcd.control.lcd_and_ppu_enable =>
          /\ call'.new_frame = (lcd.lcd_y = 143 /\ lcd'.lcd_y = 144)
          /\ call'.vblank_interrupt = call'.new_frame
          /\ (call'.new_frame /\ elapsed >= 0 =>
                /\ call'.frame_cycles > 17556 - 8
                /\ call'.frame_cycles < 17556 + 8) ]_vars

\* A second frame_ready, 17,560 cycles after the one before it.
C24_SecondFrame ==
    /\ call.fn = "Ppu::step"
    /\ call.new_frame /\ call.vblank_interrupt
    /\ lcd.lcd_y = 144
    /\ ppu.current_cycles = 144 * 114 + 4
    /\ call.frame_cycles = 17560

-----------------------------------------------------------------------------
(* C25                                                                     *)

\* C25: with LCDC.enable = 0, after Ppu::step the STAT mode bits read 0 and
\* LY reads 0, and the step reports no VBlank interrupt, no LCD interrupt
\* and no frame_ready.
C25_DisabledReadsZero ==
    call.fn = "Ppu::step" /\ ~lcd.control.lcd_and_ppu_enable =>
        /\ StatMode = 0
        /\ ReadU8(Machine, 65348) = Ok(0)
        /\ ~call.vblank_interrupt /\ ~call.lcd_interrupt /\ ~call.new_frame

\* The LCD was switched off during the pixel draw of scanline 1: after a
\* step the mode bits still read 3 and LY still reads 1.
C25_ModeAndLyKept ==
    /\ call.fn = "Ppu::step"
    /\ ~lcd.control.lcd_and_ppu_enable
    /\ StatMode = 3
    /\ ReadU8(Machine, 65348) = Ok(1)
    /\ ~call.vblank_interrupt /\ ~call.lcd_interrupt /\ ~call.new_frame

-----------------------------------------------------------------------------
(* C26                                                                     *)

\* C26: with the LCD enabled, a Ppu::step in which LY changes leaves the
\* coincidence flag (STAT bit 2) set exactly when the new LY equals LYC, and
\* returns the LCD interrupt exactly when it does and the LYC select (STAT
\* bit 6) is set; a step in which LY stays returns no LCD interrupt.
C26_LycInterrupt ==
    [][ call'.fn = "Ppu::step" /\ lcd.control.lcd_and_ppu_enable =>
          /\ lcd'.lcd_y # lcd.lcd_y =>
                /\ (BitAnd(read_status(lcd'), 4) # 0)
                       = (lcd'.lcd_y = lcd.lcd_y_compare)
                /\ call'.lcd_interrupt
                       = (/\ lcd'.lcd_y = lcd.lcd_y_compare
                          /\ BitAnd(read_status(lcd), 64) # 0)
          /\ lcd'.lcd_y = lcd.lcd_y => ~call'.lcd_interrupt ]_vars

\* LY has reached LYC = 144 with the LYC select set: the step returned the
\* LCD interrupt and the flag is set.
C26_CoincidenceAt144 ==
    /\ call.fn = "Ppu::step"
    /\ call.lcd_interrupt
    /\ lcd.lcd_y = 144 /\ lcd.lcd_y_compare = 144
    /\ read_status(lcd) = 64 + 4 + 1

-----------------------------------------------------------------------------
(* Calls, restarts and STOP: Cpu::step on a program in work RAM at 0xC000, *)
(* with the stack in high RAM, across the lower end of work RAM, or below  *)
(* the I/O registers where no device owns the bytes under SP.              *)

\* The bytes from 0xC000 on.
Program(bytes) == [k \in 0 .. Len(bytes) - 1 |-> bytes[k + 1]]

\* RST 0, RST 1 and RST 7; CALL 0xC010; PUSH BC; STOP; LD (0xBFFF),SP;
\* LD (0xC020),SP; the undefined opcode 0xD3.
Programs ==
    { Program(bytes) : bytes \in { << 199 >>, << 207 >>, << 255 >>,
                                   << 205, 16, 192 >>, << 197 >>, << 16 >>,
                                   << 8, 255, 191 >>, << 8, 32, 192 >>,
                                   << 211 >> } }

\* 0xFFFF, 0xC001 and 0xFF00.
CallStackPointers == { 65535, 49153, 65280 }

InitCalls ==
    /\ InitMachine({ 49152 }, CallStackPointers, BOOLEAN, InterruptEnables,
                   InterruptFlags)
    /\ halted = FALSE
    /\ work_ram \in Programs

\* DIV has counted before the program runs.
NextCalls ==
    \/ Step
    \/ \E interrupt \in Requestable : RequestInterrupt(interrupt)
    \/ steps = 0 /\ StepTimer(171)

SpecCalls == InitCalls /\ [][NextCalls]_vars

-----------------------------------------------------------------------------
(* RST.                                                                    *)

-----------------------------------------------------------------------------
(* STOP.                                                                   *)

\* C32: executing STOP resets DIV to 0, halts the CPU and lets the step
\* return normally with PC past the instruction; it never aborts.
C32_StopReturns ==
    last.called /\ last.instr.op = "Stop" =>
        /\ fault = NoFault
        /\ timer.divider = 0
        /\ halted
        /\ instruction_pointer = Wrap16(last.mid.pc + 1)

\* STOP has reset a DIV that had counted, has halted the CPU and has then
\* panicked.
C32_StopPanicked ==
    /\ last.called
    /\ last.instr.op = "Stop"
    /\ last.pre.timer.divider # 0
    /\ timer.divider = 0
    /\ halted
    /\ fault = << "Panic", "todo" >>

-----------------------------------------------------------------------------
(* OAM through the bus.                                                    *)

\* The Y position, the flags and the next object's Y position at the start
\* of OAM (FE00, FE03, FE04), the tile index and the flags of the last
\* object (FE9E, FE9F).
OamAddresses == { 65024, 65027, 65028, 65182, 65183 }

OamData == { 0, 90, 240, 255 }

NextOam ==
    \/ \E address \in OamAddresses : BusRead(address)
    \/ \E address \in OamAddresses, data \in OamData : BusWrite(address, data)

SpecOam == InitBus /\ [][NextOam]_vars

\* C38: OAM is plain byte storage: for every address a in FE00-FE9F and
\* every byte v, write_u8(a, v) followed by read_u8(a) returns v, the flags
\* byte of a descriptor with any value of its low four bits included, and
\* the write changes no other OAM byte.
C38_OamWriteThenRead ==
    [][\A a \in OamAddresses, v \in OamData :
          (call'.fn = "write_u8" /\ call'.address = a /\ call'.data = v) =>
              /\ call'.result = Ok(v)
              /\ ReadU8(Machine', a) = Ok(v)
              /\ \A b \in OamAddresses \ { a } :
                     ReadU8(Machine', b) = ReadU8(Machine, b)]_vars

\* 0x5A was written to the flags of the first object and reads back 0x50,
\* while the 0x5A written to its Y position reads back 0x5A.
C38_FlagsNibbleDropped ==
    /\ call.fn = "write_u8"
    /\ call.address = 65027
    /\ call.data = 90
    /\ ReadU8(Machine, 65027) = Ok(80)
    /\ ReadU8(Machine, 65024) = Ok(90)

-----------------------------------------------------------------------------
(* The coincidence flag.                                                   *)

\* C40: in every state reached by bus writes and PPU steps, the coincidence
\* flag read in STAT bit 2 equals (LY = LYC) for the LY and LYC read at FF44
\* and FF45; a write to LYC updates the flag without waiting for the next
\* PPU step.
C40_CoincidenceFollowsLyc ==
    call.fn \in { "write_u8", "Ppu::step" } /\ fault = NoFault =>
        (BitAnd(ReadU8(Machine, 65345).val, 4) # 0
            <=> ReadU8(Machine, 65348) = ReadU8(Machine, 65349))

\* The PPU has set the flag on line 0 with LYC = 0; the write of 144 to LYC
\* has left it set.
C40_FlagStaleAfterLycWrite ==
    /\ call.fn = "write_u8"
    /\ call.address = 65349
    /\ call.data = 144
    /\ call.result = Ok(144)
    /\ ReadU8(Machine, 65348) = Ok(0)
    /\ ReadU8(Machine, 65349) = Ok(144)
    /\ BitAnd(ReadU8(Machine, 65345).val, 4) = 4

-----------------------------------------------------------------------------
(* Bus::write_u16, called with the address and the word of a store of SP   *)
(* (LD (a16),SP), in a build with and in a build without overflow checks.  *)

\* One call of Bus::write_u16.  An Err is returned to the caller; a panic
\* ends the run.
WriteWord(address, data, overflow_checks) ==
    /\ fault = NoFault
    /\ \E m \in { WriteU16Checked(before, address, data, overflow_checks)
                    : before \in { Machine } } :
          /\ Becomes([m EXCEPT !.fault = IF Faulted(m) /\ m.fault[1] = "Panic"
                                         THEN m.fault ELSE NoFault])
          /\ call' = [fn |-> "write_u16", address |-> address, data |-> data,
                      result |-> IF Faulted(m) THEN Fail(m.fault) ELSE Ok(data)]
    /\ UNCHANGED << steps, elapsed, last, trace >>

\* The words are stored across the lower end of work RAM (BFFF), inside it
\* (C000), across its upper end (DFFF), at the last byte of high RAM (FFFE)
\* and at the last address (FFFF).
NextWord ==
    \E address \in { 49151, 49152, 57343, 65534, 65535 },
       data \in { 4660, 43981, 255 }, overflow_checks \in BOOLEAN :
        WriteWord(address, data, overflow_checks)

SpecWord == InitBus /\ [][NextWord]_vars

\* C37: Bus::write_u16(addr, v) writes the low byte at addr and the high
\* byte at (addr+1) mod 2^16, and is all-or-nothing: when it returns a
\* MemoryWriteFault neither byte has been stored.
C37_WordAllOrNothing ==
    [][call'.fn = "write_u16" =>
          IF call'.result.ok
          THEN /\ InRam(call'.address) =>
                    ReadU8(Machine', call'.address) = Ok(Lo(call'.data))
               /\ InRam(Wrap16(call'.address + 1)) =>
                    ReadU8(Machine', Wrap16(call'.address + 1)) = Ok(Hi(call'.data))
               /\ call'.address = 65535 => interrupt_enable' = BitAnd(Lo(call'.data), 31)
          ELSE /\ call'.result.err[1] = "MemoryWriteFault"
               /\ work_ram' = work_ram
               /\ high_ram' = high_ram
               /\ interrupt_enable' = interrupt_enable]_vars

\* write_u16(0xBFFF, 0x1234) has returned the fault of the low byte at
\* 0xBFFF with the high byte stored at 0xC000.
C37_HighByteStored ==
    /\ call.fn = "write_u16"
    /\ call.address = 49151
    /\ call.result = Fail(<< "MemoryWriteFault", 49151, 52 >>)
    /\ ReadU8(Machine, 49152) = Ok(18)

-----------------------------------------------------------------------------
(* Steps that begin with IME = 0.                                          *)

\* C35: if IME is 0 at the start of a step, the step services no interrupt
\* whatever IE and IF hold: it pushes no return address, does not set PC to
\* a vector and clears no IF bit; and in every step an IF bit that the step
\* clears is the bit of the interrupt the step serviced.
C35_NoServiceWithoutIme ==
    last.called =>
        /\ ~last.pre.ime =>
              /\ last.svc = "None"
              /\ last.mid.sp = last.pre.sp
              /\ last.mid.pc = last.pre.pc
              /\ last.mid.interrupt_flag = last.pre.interrupt_flag
              /\ last.m.interrupt_flag = last.pre.interrupt_flag
        /\ \A i \in Interrupt :
              (BitAnd(last.pre.interrupt_flag, InterruptBit(i)) # 0
                 /\ BitAnd(last.m.interrupt_flag, InterruptBit(i)) = 0) =>
                  last.svc = i

\* A step that began with IME = 0 and an enabled interrupt pending has
\* executed the NOP at PC and left IF and SP alone.
C35_PendingLeftAlone ==
    /\ last.called
    /\ ~last.pre.ime
    /\ BitAnd(BitAnd(last.pre.interrupt_enable, last.pre.interrupt_flag), 31) # 0
    /\ last.instr.op = "Nop"
    /\ fault = NoFault
    /\ interrupt_flag = last.pre.interrupt_flag
    /\ stack_pointer = last.pre.sp
    /\ instruction_pointer = Wrap16(last.pre.pc + 1)

-----------------------------------------------------------------------------
(* IME after a service.                                                    *)

\* C34: servicing an interrupt leaves interrupts disabled for the handler:
\* from the servicing step on, IME stays 0 until an EI executed after the
\* service takes effect or a RETI executes; an EI executed before the
\* service cannot turn IME back on during or after the servicing step.
C34_ServiceKeepsImeOff ==
    \A j \in 1 .. Len(trace) :
        trace[j].svc # "None" /\ ~trace[j].err =>
            /\ ~trace[j].ime_at_exec
            /\ \A k \in j .. Len(trace) :
                  (/\ \A i \in j .. k : trace[i].op # "Reti"
                   /\ \A i \in j .. k - 1 : trace[i].op # "Ei"
                   /\ ~trace[k].err)
                      => ~trace[k].ime_after

\* EI ran with IME = 1, the next step serviced an interrupt and executed
\* the NOP at the vector, and IME is 1 after it.
C34_ImeBackOnInService ==
    /\ Len(trace) = 2
    /\ trace[1].op = "Ei"
    /\ trace[1].ime
    /\ trace[2].svc # "None"
    /\ trace[2].op = "Nop"
    /\ trace[2].ime_at_exec
    /\ interrupts_enabled
    /\ instruction_pointer = Vector(trace[2].svc) + 1

-----------------------------------------------------------------------------
(* Steps that return an error.                                             *)

\* C36: Cpu::step is atomic on failure: when it returns MemoryReadFault,
\* MemoryWriteFault or InvalidInstruction, PC, SP, the registers and flags,
\* IME, the IF register and memory are exactly as they were before the step.
C36_StepAtomicOnFailure ==
    (/\ last.called
     /\ Faulted(last.m)
     /\ last.m.fault[1] \in { "MemoryReadFault", "MemoryWriteFault",
                              "InvalidInstruction" })
        => [last.m EXCEPT !.fault = NoFault] = last.pre

\* A step has cleared the IF bit of the interrupt it serviced, has set IME
\* to 0 and has moved SP, and has then returned the MemoryWriteFault of the
\* push of PC.
C36_ServiceHalfDone ==
    /\ last.called
    /\ last.svc # "None"
    /\ fault # NoFault
    /\ fault[1] = "MemoryWriteFault"
    /\ last.pre.ime
    /\ ~interrupts_enabled
    /\ interrupt_flag = last.pre.interrupt_flag - InterruptBit(last.svc)
    /\ stack_pointer # last.pre.sp
    /\ instruction_pointer = last.pre.pc

-----------------------------------------------------------------------------
(* The objects of a scanline: a program fills OAM through the bus, writes  *)
(* LCDC, and the PPU reaches HBlank of a line and rasterizes it.           *)

\* Bus::write_u8 of the Y and X positions of the objects 0, 1, ... in turn.
RECURSIVE WriteObjects(_, _, _)
WriteObjects(m, positions, i) ==
    IF i >= Len(positions) THEN m
    ELSE The({ The({ WriteObjects(with_x, positions, i + 1)
                       : with_x \in { WriteU8(with_y, 65024 + 4 * i + 1,
                                              positions[i + 1][2]) } })
                 : with_y \in { WriteU8(m, 65024 + 4 * i, positions[i + 1][1]) } })

\* n objects on the lines from y_position - 16 on, with the X positions
\* first, first + 1, ...
Row(n, y_position, first) == [i \in 1 .. n |-> << y_position, first + i - 1 >>]

\* Ten objects at X 30..39 and an eleventh or a twelfth object at X 10; ten
\* and eleven objects of one X; one object left of the screen (X 4), on it
\* (X 80), across its right edge (X 164) and right of it (X 168), at the top
\* and at the bottom of the screen; one object above the screen (Y 8).
Scenes ==
    { Row(10, 16, 30) \o << << 16, 10 >> >>,
      Row(11, 16, 30) \o << << 16, 10 >> >>,
      [i \in 1 .. 10 |-> << 16, 40 >>],
      [i \in 1 .. 11 |-> << 16, 40 >>],
      << << 16, 4 >> >>, << << 16, 80 >> >>, << << 16, 164 >> >>,
      << << 16, 168 >> >>, << << 159, 80 >> >>, << << 159, 164 >> >>,
      << << 8, 80 >> >>, << << 16, 80 >>, << 16, 8 >> >> }

LoadObjects(positions) ==
    /\ steps = 0
    /\ fault = NoFault
    /\ Becomes(WriteObjects(Machine, positions, 0))
    /\ call' = [fn |-> "write_u8", address |-> 65024 + 4 * Len(positions) - 3,
                data |-> positions[Len(positions)][2],
                result |-> Ok(positions[Len(positions)][2])]
    /\ steps' = 1
    /\ UNCHANGED << elapsed, last, trace >>

\* The Ppu::step call that enters HBlank on a line, up to its call of
\* write_scanline and the call itself.  A panic ends the run.
WriteScanline(scanline, tiles, overflow_checks) ==
    /\ fault = NoFault
    /\ lcd.control.lcd_and_ppu_enable
    /\ \E stepped \in
           { [Machine EXCEPT
                !.ppu = [current_cycles |-> scanline * SCANLINE_CYCLES_LENGTH + 64,
                         current_scanline |-> scanline],
                !.lcd = [update_lcd_y(lcd, scanline)
                           EXCEPT !.status.ppu_mode = "HBlank"]] } :
          \E r \in { write_scanline(stepped, tiles, overflow_checks) } :
              /\ Becomes([stepped EXCEPT !.fault = r.fault])
              /\ call' = [fn |-> "write_scanline", y |-> r.y,
                          line_objects |-> r.line_objects, drawn |-> r.drawn,
                          written |-> r.written, fault |-> r.fault]
    /\ UNCHANGED << steps, elapsed, last, trace >>

\* Written to LCDC: the LCD on with the objects off (0x80), with 8x8 objects
\* (0x82), with 8x16 objects (0x86) and with 8x8 objects over the background
\* (0x83).  The lines rasterized are 0, 8 and 143.
NextSprites ==
    \/ \E positions \in Scenes : LoadObjects(positions)
    \/ \E data \in { 128, 130, 134, 131 } : WriteLcd(65344, data)
    \/ \E scanline \in { 0, 8, 143 },
          tiles \in [obj_opaque : BOOLEAN, bg_opaque : BOOLEAN],
          overflow_checks \in BOOLEAN :
          WriteScanline(scanline, tiles, overflow_checks)

SpecSprites == InitBus /\ [][NextSprites]_vars

\* The sequence s from its last element to its first.
Reversed(s) == [k \in 1 .. Len(s) |-> s[Len(s) + 1 - k]]

\* The first ten objects of the line in OAM order.
FirstTen(line_objects) ==
    { i \in line_objects : Cardinality({ j \in line_objects : j < i }) < 10 }

\* C33: when more than 10 sprites cover the scanline, the sprites drawn are
\* the first 10 of them in OAM index order, and these are ordered by X
\* ascending with ties broken by OAM index; a covering sprite beyond the
\* first 10 in OAM order is never drawn, however small its X.
C33_FirstTenInOamOrder ==
    call.fn = "write_scanline" /\ call.fault = NoFault =>
        /\ { call.drawn[k] : k \in 1 .. Len(call.drawn) } = FirstTen(call.line_objects)
        /\ \A k \in 1 .. Len(call.drawn) - 1 :
              LET a == Reversed(call.drawn)[k]
                  b == Reversed(call.drawn)[k + 1]
              IN  \/ OamObject(Machine, a).x_position < OamObject(Machine, b).x_position
                  \/ /\ OamObject(Machine, a).x_position = OamObject(Machine, b).x_position
                     /\ a < b

\* Eleven objects cover line 0: the eleventh, at X 10, is drawn, on top of
\* the others, and the tenth, at X 39, is not.
C33_EleventhDrawn ==
    /\ call.fn = "write_scanline"
    /\ call.fault = NoFault
    /\ call.y = 0
    /\ call.line_objects = 0 .. 10
    /\ Len(call.drawn) = 10
    /\ call.drawn[10] = 10
    /\ \A k \in 1 .. 10 : call.drawn[k] # 9

\* C39: rasterizing scanline LY writes only pixels of row LY: every pixel
\* index written lies in [LY*160, LY*160+159], with no index underflow for
\* x < 8 and no spill into the next row or past the end of the buffer for
\* x > 160.
C39_WritesStayInRow ==
    call.fn = "write_scanline" =>
        /\ call.fault = NoFault
        /\ \A pixel_index \in call.written :
              /\ call.y * DISPLAY_WIDTH_PIXELS <= pixel_index
              /\ pixel_index <= call.y * DISPLAY_WIDTH_PIXELS + 159

\* The object at X 164 on line 0 has been drawn into the pixels 156..159 of
\* row 0 and 0..3 of row 1.
C39_SpilledIntoNextRow ==
    /\ call.fn = "write_scanline"
    /\ call.fault = NoFault
    /\ call.y = 0
    /\ call.drawn = << 0 >>
    /\ OamObject(Machine, 0).x_position = 164
    /\ { 156, 159, 160, 163 } \subseteq call.written
    /\ 164 \notin call.written

====
